---- MODULE Spec2Model ----
(***************************************************************************)
(* CG Spins bot: TON payment reconciliation (main.py check_new_ton_payments *)
(* and ton_payment_checker), the pending-intent sweep (services/payment.py),*)
(* the Stars rail (main.py process_successful_payment) and the slot-machine *)
(* spin transition (main.py handle_slot_machine, utils/helpers.py).         *)
(***************************************************************************)
EXTENDS Integers, Sequences, FiniteSets, TLC

(***************************************************************************)
(* Bounds of the model.                                                     *)
(***************************************************************************)
NumUsers == 1          \* user ids 1..NumUsers
NumBuyKeys == 1        \* packages purchasable in the payment specification
NumTx == 3             \* on-chain transactions the indexer may return
MaxFetch == 2          \* length of one transaction listing
MaxTicks == 1          \* clock advances in one behaviour
MaxSpinEvents == 1     \* spin events in the payment specification
MaxStars == 2          \* Stars successful-payment events
MaxPool == 2           \* NFT names drawn per package pool
PageSize == 1          \* transactions on one page of a listing

(***************************************************************************)
(* Program constants.                                                       *)
(***************************************************************************)
HIT_POINTS == 10
TON_PAYMENT_EXPIRY == 3600
CACHE_CLEANUP_INTERVAL == 300
AMOUNT_TOLERANCE == 1
WINNING_DICE == 64
WELCOME_BONUS == 2
NANO_PER_TON == 1000000000

None == "None"           \* the package of an account without a package
NoMethod == "null"       \* payment_method None
NoReferrer == 0          \* referred_by None

PackageKeys == <<"bronze", "silver", "gold", "black">>
AllKeys == {PackageKeys[i] : i \in 1..4}
BuyKeys == {PackageKeys[i] : i \in 1..(IF NumBuyKeys < 4 THEN NumBuyKeys ELSE 4)}

\* An amount of nanoTON, kept as whole TON and remaining nano so that every
\* value stays inside the evaluator's integers: ton * 10^9 + nano.
Nano(t, n) == [ton |-> t, nano |-> n]

PACKAGES ==
  [k \in AllKeys |->
     CASE k = "bronze" -> [name |-> "Bronze", price_stars |-> 450,
                           nano |-> Nano(2, 0), spins |-> 30, hits_required |-> 1]
       [] k = "silver" -> [name |-> "Silver", price_stars |-> 900,
                           nano |-> Nano(4, 0), spins |-> 60, hits_required |-> 3]
       [] k = "gold"   -> [name |-> "Gold", price_stars |-> 5000,
                           nano |-> Nano(24, 0), spins |-> 300, hits_required |-> 10]
       [] OTHER        -> [name |-> "Black", price_stars |-> 10000,
                           nano |-> Nano(49, 0), spins |-> 600, hits_required |-> 25]]

PackageNames == {PACKAGES[k].name : k \in AllKeys}

PACKAGE_POINTS ==
  [k \in AllKeys |->
     CASE k = "bronze" -> 5 [] k = "silver" -> 15 [] k = "gold" -> 50 [] OTHER -> 100]

\* required_hits table of calculate_spin_result, keyed by package name
required_hits ==
  [n \in PackageNames |->
     CASE n = "Bronze" -> 1 [] n = "Silver" -> 3 [] n = "Gold" -> 10 [] OTHER -> 25]

\* config.NFT_DROPS: the first names of each pool (the pools hold 38, 15, 3, 2)
NFT_POOL_SIZE ==
  [n \in PackageNames |->
     CASE n = "Bronze" -> 38 [] n = "Silver" -> 15 [] n = "Gold" -> 3 [] OTHER -> 2]

NFT_DROPS ==
  [n \in PackageNames |->
     {<<n, i>> : i \in 1..(IF NFT_POOL_SIZE[n] < MaxPool THEN NFT_POOL_SIZE[n] ELSE MaxPool)}]

Users == 1..NumUsers

\* config.INFLUENCERS: one configured influencer id, outside the bot's users
INFLUENCERS == {NumUsers + 1}

(***************************************************************************)
(* Pure helpers.                                                            *)
(***************************************************************************)
Max(a, b) == IF a >= b THEN a ELSE b

\* helpers.calculate_level: first level whose [min_points, max_points] holds
\* the points, "High-Roller" when none does.
calculate_level(points) ==
  IF 0 <= points /\ points <= 19 THEN "Spinner"
  ELSE IF 20 <= points /\ points <= 49 THEN "Collector"
  ELSE IF 50 <= points /\ points <= 99 THEN "VIP"
  ELSE "High-Roller"

calculate_referral_rewardMutant(package_name) ==
  5

\* helpers.calculate_referral_reward
calculate_referral_reward(package_name) ==
  CASE package_name = "Bronze" -> 5
    [] package_name = "Silver" -> 10
    [] package_name = "Gold" -> 25
    [] package_name = "Black" -> 50
    [] OTHER -> 5

\* line 586: abs(expected_amount - amount) <= 1, on two-part amounts
WithinTolerance(a, b) ==
  \/ a.ton = b.ton /\ a.nano - b.nano <= AMOUNT_TOLERANCE
                   /\ b.nano - a.nano <= AMOUNT_TOLERANCE
  \/ a.ton = b.ton + 1 /\ a.nano + NANO_PER_TON - b.nano <= AMOUNT_TOLERANCE
  \/ b.ton = a.ton + 1 /\ b.nano + NANO_PER_TON - a.nano <= AMOUNT_TOLERANCE

\* `expected_id in tx_text or f"cgspins_{expected_id}" in tx_text`; a memo is a
\* sequence of tokens, a payment id one token, "cgspins_" the legacy prefix.
IdInText(expected_id, tx_text) ==
  \/ \E i \in 1..Len(tx_text) : tx_text[i] = expected_id
  \/ \E i \in 1..(Len(tx_text) - 1) :
        tx_text[i] = "cgspins_" /\ tx_text[i + 1] = expected_id

SeqToSet(s) == {s[i] : i \in 1..Len(s)}

\* a removal that leaves the intent in the map
SeqFilterOutMutant(s, us) ==
  s

RECURSIVE SeqFilterOut(_, _)
\* the sequence s without the records whose user_id is in the set us
SeqFilterOut(s, us) ==
  IF s = <<>> THEN <<>>
  ELSE IF Head(s).user_id \in us THEN SeqFilterOut(Tail(s), us)
       ELSE <<Head(s)>> \o SeqFilterOut(Tail(s), us)

(***************************************************************************)
(* State.                                                                   *)
(***************************************************************************)
VARIABLES
  user_data,                 \* main.user_data: user id -> account
  pending_ton_payments,      \* main.pending_ton_payments, in insertion order
  processed_transactions,    \* main.processed_transactions
  recent_transaction_cache,  \* main.recent_transaction_cache
  cache_cleanup_time,        \* main.cache_cleanup_time
  now,                       \* time.time()
  pc,                        \* position of ton_payment_checker
  relevant_transactions,     \* check_new_ton_payments: relevant_transactions
  transactions,              \* check_new_ton_payments: the listing being processed
  users_to_remove,           \* cleanup_old_payments: users_to_remove of the last sweep
  stars_pc,                  \* process_successful_payment awaiting its replies
  deferred,                  \* history: hashes the latest cycle skipped because
                             \* they were not confirmed
  superseded,                \* history: users who paid with Stars while their
                             \* current TON intent was pending
  ticks,                     \* clock advances so far
  spin_events,               \* spin events so far
  stars_events,              \* Stars payments so far
  api_request,               \* _make_ton_api_request: the request in progress
  db_users,                  \* table users of cgspins.db: user id -> row
  db_pending,                \* table pending_ton_payments of cgspins.db
  last_wallet_check,         \* ton_payment_checker: last_wallet_check
  breaker,                   \* CircuitBreaker: state, failure_count,
                             \* last_failure_time
  calls,                     \* CircuitBreaker.call: position and latest
                             \* outcome of each caller
  cache,                     \* TTLCache.cache, oldest entry first
  timestamps,                \* TTLCache.timestamps: key -> expiry time
  cache_reply,               \* what the latest TTLCache operation returned:
                             \* the value of a get, the flag of a delete
  cache_history              \* history: the operations so far, when each key
                             \* was last read or written, and the key the
                             \* latest set evicted at capacity

vars == <<user_data, pending_ton_payments, processed_transactions,
          recent_transaction_cache, cache_cleanup_time, now, pc,
          relevant_transactions, transactions, users_to_remove, stars_pc,
          deferred, superseded, ticks, spin_events, stars_events,
          api_request, db_users, db_pending, last_wallet_check,
          breaker, calls, cache, timestamps, cache_reply, cache_history>>

payVars == <<pending_ton_payments, processed_transactions,
             recent_transaction_cache, cache_cleanup_time, pc,
             relevant_transactions, transactions, users_to_remove,
             deferred, superseded>>

(***************************************************************************)
(* The circuit breaker and the TTL cache of the enhanced indexer client.   *)
(***************************************************************************)
utilVars == <<breaker, calls, cache, timestamps, cache_reply, cache_history>>

\* every variable of the bot except the clock
botVars == <<user_data, payVars, stars_pc, ticks, spin_events, stars_events,
             api_request, db_users, db_pending, last_wallet_check>>

\* number of concurrent callers of the breaker
NumCallers == 2

\* failures after which call_raises is no longer explored
MaxFailures == 4

\* the clock of the breaker specification stops here
MaxBreakerTime == 61

\* get_ton_api_breaker: failure_threshold=3
failure_threshold == 3

\* get_ton_api_breaker: recovery_timeout=30
recovery_timeout == 30

Callers == 1..NumCallers

\* CircuitBreaker.__init__ lines 29-31
NewBreaker ==
  [state |-> "closed", failure_count |-> 0, last_failure_time |-> None]

can_attempt_resetMutant(b, current_time) ==
  TRUE

\* CircuitBreaker._can_attempt_reset
can_attempt_reset(b, current_time) ==
  current_time - b.last_failure_time >= recovery_timeout

\* CircuitBreaker._on_success
on_success(b) ==
  [b EXCEPT !.failure_count = 0, !.state = "closed"]

\* CircuitBreaker._on_failure
on_failure(b, current_time) ==
  LET b1 == [b EXCEPT !.failure_count = @ + 1,
                      !.last_failure_time = current_time]
  IN IF b1.failure_count >= failure_threshold
     THEN [b1 EXCEPT !.state = "open"]
     ELSE b1

\* CircuitBreaker._should_attempt_reset: the breaker after the test and
\* whether the call may proceed
should_attempt_reset(b, current_time) ==
  IF b.state = "open"
  THEN IF can_attempt_reset(b, current_time)
       THEN [breaker |-> [b EXCEPT !.state = "half_open"], attempt |-> TRUE]
       ELSE [breaker |-> b, attempt |-> FALSE]
  ELSE [breaker |-> b, attempt |-> b.state # "open"]

\* a caller that has not called yet
IdleCall == [pc |-> "idle", result |-> "none"]

\* number of keys the cache specification uses
NumKeys == 3

\* cache operations explored
MaxOps == 4

\* the clock of the cache specification stops here
MaxCacheTime == 31

\* TTLCache.__init__: max_size of the modelled cache
max_size == 2

\* CacheManager line 119: the TON API response cache, default_ttl=30
default_ttl == 30

\* the ttl argument of set when it is None; line 78 (ttl or self.default_ttl)
\* treats None and 0 alike
NoTtl == 0

\* the ttl arguments of set: none, and one shorter than the default
TtlArgs == {NoTtl, 10}

Keys == 1..NumKeys

\* the keys of an OrderedDict kept as a sequence of entries
KeysOf(c) == {c[i].key : i \in 1..Len(c)}

\* the value stored under a key; the key is in the sequence
ValueOf(c, key) == c[CHOOSE i \in 1..Len(c) : c[i].key = key].value

RECURSIVE Pop(_, _)
\* OrderedDict.pop(key, None): the entries without the key, order kept
Pop(c, keys) ==
  IF c = <<>> THEN <<>>
  ELSE IF Head(c).key \in keys THEN Pop(Tail(c), keys)
       ELSE <<Head(c)>> \o Pop(Tail(c), keys)

\* dict.pop(key, None) on timestamps
PopTime(t, keys) == [k \in DOMAIN t \ keys |-> t[k]]

is_expiredMutant(t, key, current_time) ==
  FALSE

\* TTLCache._is_expired
is_expired(t, key, current_time) ==
  IF key \notin DOMAIN t THEN TRUE
  ELSE current_time > t[key]

\* TTLCache._evict_expired: the keys it removes
expired_keys(t, current_time) ==
  {k \in DOMAIN t : current_time > t[k]}

\* TTLCache._evict_lru: the key it removes, if the cache has an entry
evict_lru(c) ==
  IF c # <<>> THEN {Head(c).key} ELSE {}

\* the state of the utilities after construction
InitUtils ==
  /\ breaker = NewBreaker
  /\ calls = [c \in Callers |-> IdleCall]
  /\ cache = <<>>
  /\ timestamps = [k \in {} |-> 0]
  /\ cache_reply = [op |-> "none", key |-> 0, result |-> <<>>,
                    existed |-> FALSE]
  /\ cache_history = [ops |-> 0, used |-> [k \in Keys |-> 0], evicted |-> {}]

\* ton_payment_checker line 740: seconds between two wallet balance requests
WALLET_CHECK_INTERVAL == 300

\* ton_payment_checker line 724: last_wallet_check = 0, the epoch, which lies
\* more than five minutes before every time.time() of a running process; the
\* clock of the model counts from the start of the process
last_wallet_check_start == 0 - (WALLET_CHECK_INTERVAL + 1)

\* no indexer request in progress
IdleRequest ==
  [server |-> <<>>, attempt |-> 0, delays |-> <<>>, phase |-> "idle",
   result |-> "none"]

\* the account start_command and check_new_ton_payments create
NewAccount ==
  [package |-> None, level |-> "Spinner", spin_points |-> 0, hits |-> 0,
   total_spins |-> 0, spins_available |-> 0, referrals |-> 0,
   referred_by |-> NoReferrer, payment_method |-> NoMethod, nfts |-> <<>>,
   all_time_spins |-> 0, all_time_hits |-> 0]

\* main.save_user_data_to_db lines 248-287 and user.save_user_data lines
\* 81-108: the columns of the users table that hold account state
DbRow(user) ==
  [package |-> user.package, level |-> user.level,
   spin_points |-> user.spin_points, hits |-> user.hits,
   total_spins |-> user.total_spins, spins_available |-> user.spins_available,
   referrals |-> user.referrals, referred_by |-> user.referred_by,
   payment_method |-> user.payment_method, nfts |-> user.nfts]

\* INSERT OR REPLACE INTO users
save_user_data_to_db(db, u, user) ==
  [x \in DOMAIN db \cup {u} |-> IF x = u THEN DbRow(user) ELSE db[x]]

\* user.remove_pending_payment lines 53-63: DELETE FROM pending_ton_payments
remove_pending_payment(db, us) ==
  {r \in db : r.user_id \notin us}

HasUser(u) == u \in DOMAIN user_data

ActivePackage(user) == user.package # None

(***************************************************************************)
(* Spin outcome: helpers.calculate_spin_result, helpers.add_spin_points,    *)
(* helpers.send_nft_reward_message and main.handle_slot_machine.            *)
(***************************************************************************)
\* add_spin_points: add the points and recompute the level
add_spin_points(user, points) ==
  [user EXCEPT !.spin_points = @ + points,
               !.level = calculate_level(user.spin_points + points)]

NftEarnedMutant(current_hits, needed_hits) ==
  current_hits + 1 >= needed_hits

\* calculate_spin_result line 183: current_hits >= needed_hits
NftEarned(current_hits, needed_hits) ==
  current_hits >= needed_hits

calculate_spin_resultMutant(dice_value, user) ==
  IF dice_value # WINNING_DICE
  THEN [user |-> user, is_winning |-> FALSE, hits |-> 0, nft_earned |-> FALSE]
  ELSE LET u1 == add_spin_points(user, HIT_POINTS)
           h == CASE u1.package = "Silver" -> 3
                  [] u1.package = "Gold" -> 10
                  [] u1.package = "Black" -> 25
                  [] OTHER -> 1
       IN
       IF u1.package # None
       THEN LET u2 == [u1 EXCEPT !.hits = @ + h] IN
            [user |-> u2, is_winning |-> TRUE, hits |-> h,
             nft_earned |-> NftEarned(u2.hits, required_hits[u2.package])]
       ELSE [user |-> u1, is_winning |-> TRUE, hits |-> 0, nft_earned |-> FALSE]

\* calculate_spin_result: the account after the call and the returned
\* (is_winning, hits, nft_earned)
calculate_spin_result(dice_value, user) ==
  IF dice_value # WINNING_DICE
  THEN [user |-> user, is_winning |-> FALSE, hits |-> 0, nft_earned |-> FALSE]
  ELSE LET u1 == add_spin_points(user, HIT_POINTS) IN
       IF u1.package # None
       THEN LET u2 == [u1 EXCEPT !.hits = @ + 1] IN
            [user |-> u2, is_winning |-> TRUE, hits |-> 1,
             nft_earned |-> NftEarned(u2.hits, required_hits[u2.package])]
       ELSE [user |-> u1, is_winning |-> TRUE, hits |-> 0, nft_earned |-> FALSE]

\* an NFT reset that keeps the payment method
NftResetMutant(user, hits, nft_name) ==
  LET u1 == [user EXCEPT !.all_time_spins = @ + 1,
                         !.all_time_hits = @ + hits,
                         !.spins_available = 0,
                         !.total_spins = 0,
                         !.package = None,
                         !.hits = 0] IN
  [u1 EXCEPT !.level = calculate_level(u1.spin_points),
             !.nfts = Append(@, nft_name)]

NftResetKeepsSpinsMutant(user, hits, nft_name) ==
  LET u1 == [user EXCEPT !.all_time_spins = @ + 1,
                         !.all_time_hits = @ + hits,
                         !.total_spins = 0,
                         !.package = None,
                         !.payment_method = NoMethod,
                         !.hits = 0] IN
  [u1 EXCEPT !.level = calculate_level(u1.spin_points),
             !.nfts = Append(@, nft_name)]

\* handle_slot_machine lines 1362-1388: the NFT-earned branch
NftReset(user, hits, nft_name) ==
  LET u1 == [user EXCEPT !.all_time_spins = @ + 1,
                         !.all_time_hits = @ + hits,
                         !.spins_available = 0,
                         !.total_spins = 0,
                         !.package = None,
                         !.payment_method = NoMethod,
                         !.hits = 0] IN
  [u1 EXCEPT !.level = calculate_level(u1.spin_points),
             !.nfts = Append(@, nft_name)]

ExhaustedMutant(spins) ==
  spins < 0

\* handle_slot_machine line 1442: spins_available <= 0
Exhausted(spins) ==
  spins <= 0

\* handle_slot_machine lines 1427-1456: the normal branch
NormalSpin(user, hits) ==
  LET u1 == [user EXCEPT !.spins_available = Max(0, user.spins_available - 1),
                         !.total_spins = @ + 1,
                         !.all_time_spins = @ + 1,
                         !.all_time_hits = @ + hits] IN
  IF Exhausted(u1.spins_available)
  THEN [u1 EXCEPT !.package = None, !.payment_method = NoMethod,
                  !.hits = 0, !.total_spins = 0,
                  !.level = calculate_level(u1.spin_points)]
  ELSE u1

SpinOutcomesMutant(user, dice_value) ==
  LET r == calculate_spin_result(dice_value, user) IN
  IF r.nft_earned /\ user.spins_available > 1
  THEN {NftReset(r.user, r.hits, n) : n \in NFT_DROPS[user.package]}
  ELSE {NormalSpin(r.user, r.hits)}

\* the accounts a spin with this dice value can leave (one per NFT drawn)
SpinOutcomes(user, dice_value) ==
  LET r == calculate_spin_result(dice_value, user) IN
  IF r.nft_earned
  THEN {NftReset(r.user, r.hits, n) : n \in NFT_DROPS[user.package]}
  ELSE {NormalSpin(r.user, r.hits)}

DiceValues == {1, 63, WINNING_DICE}

\* handle_slot_machine: what its last save_user_data_to_db wrote.  On an NFT
\* win the save (line 1383) comes before send_nft_reward_message appends the
\* NFT (line 1388) and nothing is saved afterwards; otherwise the last save
\* is line 1438, or line 1452 when the package was reset.
SavedBySpin(user, after, dice_value) ==
  IF calculate_spin_result(dice_value, user).nft_earned
  THEN [after EXCEPT !.nfts = user.nfts]
  ELSE after

\* calculate_spin_result line 181: required_hits[package] raises KeyError for
\* a package that is not one of the four names (the lower-case key stored by
\* /give_package, main.py:2876)
SpinRaises(user, dice_value) ==
  /\ dice_value = WINNING_DICE
  /\ user.package # None
  /\ user.package \notin DOMAIN required_hits

\* the account when that KeyError leaves the handler: lines 162 and 170 have
\* run, nothing after line 1359 has
AbortedSpin(user) ==
  [add_spin_points(user, HIT_POINTS) EXCEPT !.hits = @ + 1]

handle_slot_machine_replyMutant(ud, u) ==
  IF u \notin DOMAIN ud THEN "user_data_not_found_error"
  ELSE IF ud[u].spins_available < 0 THEN "out_of_spins"
  ELSE "spin"

\* handle_slot_machine lines 1343-1353: what a spin event is answered with
\* before anything is computed
handle_slot_machine_reply(ud, u) ==
  IF u \notin DOMAIN ud THEN "user_data_not_found_error"
  ELSE IF ud[u].spins_available <= 0 THEN "out_of_spins"
  ELSE "spin"

handle_slot_machine(u, dice_value) ==
  /\ handle_slot_machine_reply(user_data, u) = "spin"
  /\ IF SpinRaises(user_data[u], dice_value)
     THEN /\ user_data' = [user_data EXCEPT ![u] = AbortedSpin(@)]
          /\ UNCHANGED db_users
     ELSE /\ \E acct \in SpinOutcomes(user_data[u], dice_value) :
               user_data' = [user_data EXCEPT ![u] = acct]
          /\ db_users' = save_user_data_to_db(db_users, u,
                           SavedBySpin(user_data[u], user_data'[u], dice_value))
  /\ spin_events' = spin_events + 1
  /\ UNCHANGED <<payVars, now, stars_pc, ticks, stars_events>>
  /\ UNCHANGED api_request
  /\ UNCHANGED db_pending
  /\ UNCHANGED last_wallet_check
  /\ UNCHANGED utilVars

(***************************************************************************)
(* Inputs of the payment rail.                                              *)
(***************************************************************************)
\* payment ids create_pending_ton_payment can draw (str(uuid.uuid4())[:8])
PaymentIds == {"pidA", "pidB"}

\* The transactions the indexer can list; a hash is its position here.  ok is
\* `"in_msg" in tx and success and msg_type == "int_msg"`.
TxTable ==
  << [value |-> Nano(2, 0), text |-> <<"pidA">>, ok |-> TRUE],
     [value |-> Nano(2, 1), text |-> <<"pidA">>, ok |-> TRUE],
     [value |-> Nano(2, 0), text |-> <<"pidB", "pidA">>, ok |-> TRUE],
     [value |-> Nano(2, 2), text |-> <<"pidA">>, ok |-> TRUE],
     [value |-> Nano(1, NANO_PER_TON - 1), text |-> <<"cgspins_", "pidB">>, ok |-> TRUE],
     [value |-> Nano(4, 0), text |-> <<"pidB">>, ok |-> TRUE],
     [value |-> Nano(2, 0), text |-> <<"pidA">>, ok |-> FALSE] >>

\* a chain transaction hash; ids of either rail share the processed ledger
TxHash(n) == <<"tx", n>>

Hashes == {TxHash(n) : n \in 1..(IF NumTx < Len(TxTable) THEN NumTx ELSE Len(TxTable))}

TxOf(h) == TxTable[h[2]]

\* lines 521-532: amount and text taken from the TON API format
TxAmount(h) == IF TxOf(h).ok THEN TxOf(h).value ELSE Nano(0, 0)

TxText(h) == IF TxOf(h).ok THEN TxOf(h).text ELSE <<>>

RECURSIVE SeqsUpTo(_, _)
SeqsUpTo(S, n) ==
  IF n = 0 THEN {<<>>}
  ELSE LET shorter == SeqsUpTo(S, n - 1) IN
       shorter \cup {Append(q, x) : q \in shorter, x \in S}

\* clock advances drawn for the behaviours
Deltas == {TON_PAYMENT_EXPIRY - 1, TON_PAYMENT_EXPIRY + 1}

\* what the confirmation check of one transaction meets: a block id in
\* parentheses, a block id without, a reply without block, an exception inside
\* the client, no answer within the 5 seconds of asyncio.wait_for
ConfirmResults == {"confirmed", "pending", "error", "fallback", "timeout"}

Failures == {"none", "save_tx", "remove_pending"}

PendingUsers == {pending_ton_payments[i].user_id : i \in 1..Len(pending_ton_payments)}

(***************************************************************************)
(* User-facing handlers.                                                    *)
(***************************************************************************)
\* main.start_command lines 813-864: create the account, record the referral
start_command(u, referrer_id) ==
  /\ ~HasUser(u)
  /\ LET referred == /\ referrer_id # NoReferrer
                     /\ referrer_id # u
                     /\ (HasUser(referrer_id) \/ referrer_id \in INFLUENCERS)
         acct == [NewAccount EXCEPT
                    !.referred_by = IF referred THEN referrer_id ELSE NoReferrer]
         withUser == [x \in DOMAIN user_data \cup {u} |->
                        IF x = u THEN acct ELSE user_data[x]]
     IN user_data' =
          IF referred /\ HasUser(referrer_id)
          THEN [withUser EXCEPT ![referrer_id].referrals = @ + 1]
          ELSE withUser
  /\ UNCHANGED <<payVars, now, stars_pc, ticks, spin_events, stars_events>>
  /\ UNCHANGED api_request
  /\ db_users' =
       LET saved == IF HasUser(referrer_id) /\ referrer_id # u
                    THEN save_user_data_to_db(db_users, referrer_id,
                                              user_data'[referrer_id])
                    ELSE db_users
       IN save_user_data_to_db(saved, u, user_data'[u])
  /\ UNCHANGED db_pending
  /\ UNCHANGED last_wallet_check
  /\ UNCHANGED utilVars

\* main.handle_package lines 1220-1258: what the handler answers.  An existing
\* pending intent is not a reason to refuse: line 1243 only skips the creation
\* and lines 1254-1258 build the payment link from the stored payment id and
\* the price of the package selected now.
handle_package_reply(ud, pending, u, package) ==
  IF u \notin DOMAIN ud THEN "user_data_not_found_error"
  ELSE IF package \notin AllKeys THEN "invalid_package_error"
  ELSE IF ActivePackage(ud[u]) THEN "already_have_package_error"
  ELSE IF \E i \in 1..Len(pending) : pending[i].user_id = u
       THEN "payment_link_existing_intent"
       ELSE "payment_link_new_intent"

\* the pending intent of user u (pending_ton_payments[user_id])
PendingOf(pending, u) ==
  pending[CHOOSE i \in 1..Len(pending) : pending[i].user_id = u]

\* main.handle_package lines 1242-1258: the intent the handler leaves in the
\* map (the stored one, or the one it creates with payment_id) and the
\* ton://transfer link it presents: amount of the package selected now,
\* text from the intent in the map
handle_package_intent(pending, u, package, payment_id) ==
  IF \E i \in 1..Len(pending) : pending[i].user_id = u
  THEN PendingOf(pending, u)
  ELSE [user_id |-> u, package |-> package,
        expected_amount |-> PACKAGES[package].nano,
        timestamp |-> now, payment_id |-> payment_id]

handle_package_link(pending, u, package, payment_id) ==
  [amount |-> PACKAGES[package].nano,
   text |-> handle_package_intent(pending, u, package, payment_id).payment_id]

\* main.handle_package lines 1220-1251 with payment.create_pending_ton_payment
handle_package(u, package, payment_id) ==
  /\ handle_package_reply(user_data, pending_ton_payments, u, package) =
       "payment_link_new_intent"
  /\ \A i \in 1..Len(pending_ton_payments) :
        pending_ton_payments[i].payment_id # payment_id
  /\ pending_ton_payments' =
       Append(pending_ton_payments,
              [user_id |-> u, package |-> package,
               expected_amount |-> PACKAGES[package].nano,
               timestamp |-> now, payment_id |-> payment_id])
  /\ UNCHANGED <<user_data, processed_transactions, recent_transaction_cache,
                 cache_cleanup_time, now, pc, relevant_transactions,
                 transactions, users_to_remove, stars_pc, deferred, superseded,
                 ticks, spin_events, stars_events>>
  /\ UNCHANGED api_request
  /\ UNCHANGED <<db_users, db_pending>>
  /\ UNCHANGED last_wallet_check
  /\ UNCHANGED utilVars

\* main.reset_command lines 956-979: drop the package and the pending intent
reset_command(u) ==
  /\ HasUser(u)
  /\ user_data' = [user_data EXCEPT ![u].package = None,
                                    ![u].payment_method = NoMethod,
                                    ![u].spins_available = 0,
                                    ![u].total_spins = 0,
                                    ![u].hits = 0,
                                    ![u].nfts = <<>>]
  /\ pending_ton_payments' = SeqFilterOut(pending_ton_payments, {u})
  /\ superseded' = superseded \ {u}
  /\ UNCHANGED <<processed_transactions, recent_transaction_cache,
                 cache_cleanup_time, now, pc, relevant_transactions,
                 transactions, users_to_remove, stars_pc, deferred, ticks,
                 spin_events, stars_events>>
  /\ UNCHANGED api_request
  /\ db_users' = save_user_data_to_db(db_users, u, user_data'[u])
  /\ db_pending' = IF u \in PendingUsers
                   THEN remove_pending_payment(db_pending, {u})
                   ELSE db_pending
  /\ UNCHANGED last_wallet_check
  /\ UNCHANGED utilVars

\* main.admin_confirm_reset_user_data_callback lines 3754-3811: an admin resets
\* the account of target_user_id.  The row is read from the users table (line
\* 3769), the reset row keeps its referrals and referred_by, is saved, and
\* then updates the account in memory when there is one (line 3808).  The
\* empty nfts value '' is the empty list here.
reset_user_data(row) ==
  [row EXCEPT !.package = None,
              !.level = "Spinner",
              !.spin_points = 0,
              !.hits = 0,
              !.total_spins = 0,
              !.spins_available = 0,
              !.payment_method = "",
              !.nfts = <<>>]

admin_confirm_reset_user_data_callback(target_user_id) ==
  /\ target_user_id \in DOMAIN db_users
  /\ LET reset == reset_user_data(db_users[target_user_id])
     IN /\ db_users' = [db_users EXCEPT ![target_user_id] = reset]
        /\ user_data' =
             IF target_user_id \in DOMAIN user_data
             THEN [user_data EXCEPT ![target_user_id] =
                     [f \in DOMAIN @ |->
                        IF f \in DOMAIN reset THEN reset[f] ELSE @[f]]]
             ELSE user_data
  /\ UNCHANGED <<payVars, now, stars_pc, ticks, spin_events, stars_events>>
  /\ UNCHANGED api_request
  /\ UNCHANGED db_pending
  /\ UNCHANGED last_wallet_check
  /\ UNCHANGED utilVars

\* main.give_package_command lines 2834-2889: the admin command
\* /give_package <user_id> <package_name>.  The account is created when
\* missing; the package stored is the key as typed (lower case), hits and
\* total_spins are left as they are.
give_package_command(target_user_id, package_name) ==
  /\ package_name \in AllKeys
  /\ LET ud0 == IF target_user_id \in DOMAIN user_data THEN user_data
                ELSE [x \in DOMAIN user_data \cup {target_user_id} |->
                        IF x = target_user_id THEN NewAccount ELSE user_data[x]]
     IN user_data' =
          [ud0 EXCEPT ![target_user_id].package = package_name,
                      ![target_user_id].spins_available =
                          PACKAGES[package_name].spins]
  /\ db_users' = save_user_data_to_db(db_users, target_user_id,
                                      user_data'[target_user_id])
  /\ UNCHANGED <<payVars, now, stars_pc, ticks, spin_events, stars_events>>
  /\ UNCHANGED api_request
  /\ UNCHANGED db_pending
  /\ UNCHANGED last_wallet_check
  /\ UNCHANGED utilVars

\* main.admin_give_specific_package_callback lines 5208-5269: the admin panel
\* button.  The row is read from the users table, given the package name and
\* saved; the account in memory, when there is one, gets the same four fields.
admin_give_specific_package_callback(target_user_id, package_type) ==
  /\ target_user_id \in DOMAIN db_users
  /\ package_type \in AllKeys
  /\ db_users' = [db_users EXCEPT
                    ![target_user_id].package = PACKAGES[package_type].name,
                    ![target_user_id].spins_available = PACKAGES[package_type].spins,
                    ![target_user_id].total_spins = 0,
                    ![target_user_id].hits = 0]
  /\ user_data' =
       IF target_user_id \in DOMAIN user_data
       THEN [user_data EXCEPT
               ![target_user_id].package = PACKAGES[package_type].name,
               ![target_user_id].spins_available = PACKAGES[package_type].spins,
               ![target_user_id].total_spins = 0,
               ![target_user_id].hits = 0]
       ELSE user_data
  /\ UNCHANGED <<payVars, now, stars_pc, ticks, spin_events, stars_events>>
  /\ UNCHANGED api_request
  /\ UNCHANGED db_pending
  /\ UNCHANGED last_wallet_check
  /\ UNCHANGED utilVars

\* helpers.process_referral_bonus: reward the referrer, welcome bonus for the
\* referred user; neither recomputes the level
process_referral_bonus(ud, referrer_id, referred_user_id, package_name) ==
  LET ud1 == IF referrer_id \in DOMAIN ud
             THEN [ud EXCEPT ![referrer_id].spin_points =
                                 @ + calculate_referral_reward(package_name),
                             ![referrer_id].referrals = @ + 1]
             ELSE ud
  IN IF referred_user_id \in DOMAIN ud1
     THEN [ud1 EXCEPT ![referred_user_id].spin_points = @ + WELCOME_BONUS]
     ELSE ud1

\* the package fields both rails write on activation
Activate(user, package, method) ==
  [user EXCEPT !.package = PACKAGES[package].name,
               !.payment_method = method,
               !.spins_available = PACKAGES[package].spins,
               !.total_spins = 0,
               !.hits = 0]

\* process_successful_payment lines 1511-1541: activate, referral bonus,
\* package points.  user_data is a defaultdict (line 328): an unknown payer
\* gets the default account.
StarsApply(ud, u, package) ==
  LET ud0 == IF u \in DOMAIN ud THEN ud
             ELSE [x \in DOMAIN ud \cup {u} |-> IF x = u THEN NewAccount ELSE ud[x]]
      ud1 == [ud0 EXCEPT ![u] = Activate(@, package, "stars")]
      ref == ud1[u].referred_by
      ud2 == IF ref # NoReferrer
             THEN process_referral_bonus(ud1, ref, u, PACKAGES[package].name)
             ELSE ud1
  IN [ud2 EXCEPT ![u] = add_spin_points(@, PACKAGE_POINTS[package])]

\* process_successful_payment lines 1481-1571: the account is updated, then
\* the handler awaits its success reply
StarsActivate(u, package) ==
  /\ stars_events < MaxStars
  /\ stars_pc[u] = "idle"
  /\ package \in AllKeys
  /\ user_data' = StarsApply(user_data, u, package)
  /\ stars_pc' = [stars_pc EXCEPT ![u] = package]
  /\ superseded' = IF u \in PendingUsers THEN superseded \cup {u} ELSE superseded
  /\ stars_events' = stars_events + 1
  /\ UNCHANGED <<pending_ton_payments, processed_transactions,
                 recent_transaction_cache, cache_cleanup_time, pc,
                 relevant_transactions, transactions, users_to_remove,
                 deferred, now, ticks, spin_events>>
  /\ UNCHANGED api_request
  /\ UNCHANGED <<db_users, db_pending>>
  /\ UNCHANGED last_wallet_check
  /\ UNCHANGED utilVars

\* process_successful_payment lines 1573-1601: after the replies, record the
\* synthetic transaction id and clear the user's pending TON intent
StarsFinish(u) ==
  /\ stars_pc[u] # "idle"
  /\ processed_transactions' =
       processed_transactions \cup {<<"stars", u, stars_pc[u], now>>}
  /\ pending_ton_payments' = SeqFilterOut(pending_ton_payments, {u})
  /\ superseded' = superseded \ {u}
  /\ stars_pc' = [stars_pc EXCEPT ![u] = "idle"]
  /\ UNCHANGED <<user_data, recent_transaction_cache, cache_cleanup_time, now,
                 pc, relevant_transactions, transactions, users_to_remove,
                 deferred, ticks, spin_events, stars_events>>
  /\ UNCHANGED api_request
  /\ db_users' = save_user_data_to_db(db_users, u, user_data[u])
  /\ db_pending' = IF u \in PendingUsers
                   THEN remove_pending_payment(db_pending, {u})
                   ELSE db_pending
  /\ UNCHANGED last_wallet_check
  /\ UNCHANGED utilVars

\* process_successful_payment line 1571: message.answer raises, the handler ends
StarsReplyFails(u) ==
  /\ stars_pc[u] # "idle"
  /\ stars_pc' = [stars_pc EXCEPT ![u] = "idle"]
  /\ UNCHANGED <<user_data, payVars, now, ticks, spin_events, stars_events>>
  /\ UNCHANGED api_request
  /\ UNCHANGED <<db_users, db_pending>>
  /\ UNCHANGED last_wallet_check
  /\ UNCHANGED utilVars

\* the clock: time passes while the loop sleeps (asyncio.sleep, line 752)
Tick(d) ==
  /\ pc = "sleep"
  /\ ticks < MaxTicks
  /\ now' = now + d
  /\ ticks' = ticks + 1
  /\ UNCHANGED <<user_data, payVars, stars_pc, spin_events, stars_events>>
  /\ UNCHANGED api_request
  /\ UNCHANGED <<db_users, db_pending>>
  /\ UNCHANGED last_wallet_check
  /\ UNCHANGED utilVars

(***************************************************************************)
(* The reconciliation loop: main.ton_payment_checker,                       *)
(* payment.cleanup_old_payments and main.check_new_ton_payments.            *)
(***************************************************************************)
\* an expiry test that never fires
ExpiredNeverMutant(age) ==
  FALSE

ExpiredMutant(age) ==
  age >= TON_PAYMENT_EXPIRY - 1

\* cleanup_old_payments line 57: age > config.TON_PAYMENT_EXPIRY
Expired(age) ==
  age > TON_PAYMENT_EXPIRY

\* cleanup_old_payments lines 61-66: the user holds a package or paid with Stars
Superseded(ud, u) ==
  /\ u \in DOMAIN ud
  /\ (ud[u].package # None \/ ud[u].payment_method = "stars")

SweepTargetsMutant(pending, ud, current_time) ==
  {pending[i].user_id : i \in
     {j \in 1..Len(pending) : Expired(current_time - pending[j].timestamp)}}

\* cleanup_old_payments lines 53-66: the users whose intent is removed
SweepTargets(pending, ud, current_time) ==
  {pending[i].user_id : i \in
     {j \in 1..Len(pending) :
        \/ Expired(current_time - pending[j].timestamp)
        \/ Superseded(ud, pending[j].user_id)}}

\* ton_payment_checker lines 729-732: the sweep that opens every cycle
Sweep ==
  /\ pc = "sleep"
  /\ LET gone == SweepTargets(pending_ton_payments, user_data, now) IN
       /\ users_to_remove' = gone
       /\ pending_ton_payments' = SeqFilterOut(pending_ton_payments, gone)
       /\ superseded' = superseded \ gone
  /\ pc' = "check"
  /\ UNCHANGED <<user_data, processed_transactions, recent_transaction_cache,
                 cache_cleanup_time, now, relevant_transactions, transactions,
                 stars_pc, deferred, ticks, spin_events, stars_events>>
  /\ UNCHANGED api_request
  /\ db_pending' =
       remove_pending_payment(db_pending,
                              SweepTargets(pending_ton_payments, user_data, now))
  /\ UNCHANGED db_users
  /\ UNCHANGED last_wallet_check
  /\ UNCHANGED utilVars

RECURSIVE FirstTargets(_, _, _)
\* the first k users of the removal list, which follows the order of the map
FirstTargets(pending, gone, k) ==
  IF k = 0 \/ pending = <<>> THEN {}
  ELSE IF Head(pending).user_id \in gone
       THEN {Head(pending).user_id} \cup FirstTargets(Tail(pending), gone, k - 1)
       ELSE FirstTargets(Tail(pending), gone, k)

\* cleanup_old_payments lines 68-71 when remove_pending_payment raises at the
\* k-th removal: the intents removed so far stay removed, the others stay in
\* the map, and ton_payment_checker (lines 754-757) skips the rest of the cycle
SweepFails(k) ==
  /\ pc = "sleep"
  /\ LET gone == SweepTargets(pending_ton_payments, user_data, now)
         done == FirstTargets(pending_ton_payments, gone, k)
     IN /\ k <= Cardinality(gone)
        /\ pending_ton_payments' = SeqFilterOut(pending_ton_payments, done)
        /\ superseded' = superseded \ done
  /\ UNCHANGED <<user_data, processed_transactions, recent_transaction_cache,
                 cache_cleanup_time, now, pc, relevant_transactions, transactions,
                 users_to_remove, stars_pc, deferred, ticks, spin_events,
                 stars_events>>
  /\ UNCHANGED api_request
  /\ db_pending' =
       LET gone == SweepTargets(pending_ton_payments, user_data, now) IN
       remove_pending_payment(db_pending,
                              FirstTargets(pending_ton_payments, gone, k - 1))
  /\ UNCHANGED db_users
  /\ UNCHANGED last_wallet_check
  /\ UNCHANGED utilVars

\* ton_payment_checker line 740: the wallet balance is due for a new request
WalletCheckDue(current_time, last_check) ==
  current_time - last_check > WALLET_CHECK_INTERVAL

\* ton_payment_checker lines 739-749 and check_new_ton_payments lines 472-483:
\* when the wallet check is due, the balance is requested from the indexer
\* (get_wallet_balance) and last_wallet_check takes the current time; then,
\* nothing pending ends the cycle; otherwise the seen-cache is cleared when
\* it is older than five minutes
BeginCheck ==
  /\ pc = "check"
  /\ last_wallet_check' = IF WalletCheckDue(now, last_wallet_check)
                          THEN now ELSE last_wallet_check
  /\ IF pending_ton_payments = <<>>
     THEN /\ pc' = "sleep"
          /\ deferred' = {}
          /\ UNCHANGED <<recent_transaction_cache, cache_cleanup_time>>
     ELSE /\ pc' = "fetch"
          /\ UNCHANGED deferred
          /\ IF now - cache_cleanup_time > CACHE_CLEANUP_INTERVAL
             THEN /\ recent_transaction_cache' = {}
                  /\ cache_cleanup_time' = now
             ELSE UNCHANGED <<recent_transaction_cache, cache_cleanup_time>>
  /\ users_to_remove' = {}
  /\ UNCHANGED <<user_data, pending_ton_payments, processed_transactions, now,
                 relevant_transactions, transactions, stars_pc,
                 superseded, ticks, spin_events, stars_events>>
  /\ UNCHANGED api_request
  /\ UNCHANGED <<db_users, db_pending>>
  /\ UNCHANGED utilVars

AlreadySeenMutant(tx_hash, processed, processed_txs, seen_cache) ==
  tx_hash \in processed_txs \/ tx_hash \in seen_cache

\* line 515: already processed or recently checked
AlreadySeen(tx_hash, processed, processed_txs, seen_cache) ==
  tx_hash \in processed \/ tx_hash \in processed_txs \/ tx_hash \in seen_cache

\* line 535: amount in pending_amounts
AmountPending(amount, pending_amounts) ==
  amount \in pending_amounts

\* lines 534-541: the pre-filter on memo text, amount and payment ids
Relevant(h, pending) ==
  /\ TxText(h) # <<>>
  /\ AmountPending(TxAmount(h), {pending[i].expected_amount : i \in 1..Len(pending)})
  /\ \E i \in 1..Len(pending) : IdInText(pending[i].payment_id, TxText(h))

RECURSIVE Prefilter(_, _, _, _, _, _)
\* lines 508-548: one pass over the listing; yields the seen-cache and the
\* relevant transactions
Prefilter(txs, processed, pending, processed_txs, seen_cache, relevant) ==
  IF txs = <<>> THEN [cache |-> seen_cache, relevant |-> relevant]
  ELSE LET h == Head(txs) IN
       IF AlreadySeen(h, processed, processed_txs, seen_cache)
       THEN Prefilter(Tail(txs), processed, pending, processed_txs, seen_cache, relevant)
       ELSE Prefilter(Tail(txs), processed, pending,
                      processed_txs \cup {h}, seen_cache \cup {h},
                      IF Relevant(h, pending) THEN Append(relevant, h) ELSE relevant)

\* check_new_ton_payments lines 486-550: the listing arrives and is filtered
Fetch(listing) ==
  /\ pc = "fetch"
  /\ IF listing = <<>>
     THEN /\ pc' = "sleep"
          /\ UNCHANGED <<recent_transaction_cache, relevant_transactions, transactions>>
     ELSE LET f == Prefilter(listing, processed_transactions,
                             pending_ton_payments, {}, recent_transaction_cache, <<>>)
          IN /\ recent_transaction_cache' = f.cache
             /\ relevant_transactions' = f.relevant
             /\ transactions' = IF f.relevant = <<>> THEN <<>> ELSE listing
             /\ pc' = IF f.relevant = <<>> THEN "sleep" ELSE "confirm"
  /\ deferred' = {}
  /\ UNCHANGED <<user_data, pending_ton_payments, processed_transactions,
                 cache_cleanup_time, now, users_to_remove, stars_pc,
                 superseded, ticks, spin_events, stars_events>>
  /\ UNCHANGED api_request
  /\ UNCHANGED <<db_users, db_pending>>
  /\ UNCHANGED last_wallet_check
  /\ UNCHANGED utilVars

\* ton_api.check_transaction_confirmation lines 144-167: the dict it returns.
\* An exception inside the client gives is_confirmed True with the text of the
\* exception as error (line 167, "Fallback to confirmed").
check_transaction_confirmation(reply) ==
  IF reply = "confirmed" THEN [is_confirmed |-> TRUE, error |-> ""]
  ELSE IF reply = "pending" THEN [is_confirmed |-> FALSE, error |-> ""]
  ELSE IF reply = "fallback" THEN [is_confirmed |-> TRUE, error |-> "exception"]
  ELSE [is_confirmed |-> FALSE, error |-> "HTTP 404"]

\* a test that looks at is_confirmed only
ConfirmedMutant(confirmation) ==
  /\ confirmation # "timeout"
  /\ check_transaction_confirmation(confirmation).is_confirmed

\* lines 563-574: skip on asyncio.TimeoutError, on an error field, on
\* is_confirmed false
Confirmed(confirmation) ==
  /\ confirmation # "timeout"
  /\ LET result == check_transaction_confirmation(confirmation)
     IN ~(result.error # "" \/ ~result.is_confirmed)

\* lines 577-589: the first pending intent, in insertion order, whose payment
\* id is in the memo and whose amount is within the tolerance; 0 when none
MatchIndex(h, pending) ==
  LET hits == {i \in 1..Len(pending) :
                 /\ IdInText(pending[i].payment_id, TxText(h))
                 /\ WithinTolerance(pending[i].expected_amount, TxAmount(h))}
  IN IF hits = {} THEN 0 ELSE CHOOSE i \in hits : \A j \in hits : i <= j

\* lines 599-640: create the account when missing, activate, referral bonus
ApplyPayment(ud, u, package) ==
  LET ud0 == IF u \in DOMAIN ud THEN ud
             ELSE [x \in DOMAIN ud \cup {u} |-> IF x = u THEN NewAccount ELSE ud[x]]
      ud1 == [ud0 EXCEPT ![u] = Activate(@, package, "ton")]
  IN IF ud1[u].referred_by # NoReferrer
     THEN process_referral_bonus(ud1, ud1[u].referred_by, u, PACKAGES[package].name)
     ELSE ud1

\* line 705: processed_transactions.remove(tx_hash)
Rollback(processed, tx_hash) ==
  processed \ {tx_hash}

\* the rest of the cycle after one relevant transaction
NextTx ==
  /\ relevant_transactions' = Tail(relevant_transactions)
  /\ transactions' = IF Tail(relevant_transactions) = <<>> THEN <<>> ELSE transactions
  /\ pc' = IF Tail(relevant_transactions) = <<>> THEN "sleep" ELSE "confirm"

CycleAbortedMutant ==
  /\ relevant_transactions' = <<>>
  /\ transactions' = <<>>
  /\ pc' = "stopped"

\* an exception leaves check_new_ton_payments through line 717
CycleAborted ==
  /\ relevant_transactions' = <<>>
  /\ transactions' = <<>>
  /\ pc' = "sleep"

\* check_new_ton_payments lines 553-712 for one relevant transaction: the
\* confirmation check returns, then match, record, activate, clear the intent.
\* failure names the storage call that raises, if any.
ProcessTx(confirmation, failure) ==
  /\ pc = "confirm"
  /\ LET h == Head(relevant_transactions)
         m == MatchIndex(h, pending_ton_payments)
     IN
     IF ~Confirmed(confirmation)
     THEN /\ failure = "none"
          /\ NextTx
          /\ deferred' = deferred \cup {h}
          /\ UNCHANGED <<user_data, pending_ton_payments, processed_transactions,
                         superseded>>
     ELSE IF m = 0
     THEN /\ failure = "none"
          /\ NextTx
          /\ UNCHANGED <<user_data, pending_ton_payments, processed_transactions,
                         deferred, superseded>>
     ELSE LET u == pending_ton_payments[m].user_id
              ud == ApplyPayment(user_data, u, pending_ton_payments[m].package)
          IN
          IF failure = "save_tx"
          THEN \* save_processed_transaction raises (line 597)
               /\ processed_transactions' =
                    Rollback(processed_transactions \cup {h}, h)
               /\ CycleAborted
               /\ UNCHANGED <<user_data, pending_ton_payments, deferred, superseded>>
          ELSE IF failure = "remove_pending"
          THEN \* remove_pending_payment raises (line 656), the intent has
               \* already left the map (line 655)
               /\ user_data' = ud
               /\ pending_ton_payments' = SeqFilterOut(pending_ton_payments, {u})
               /\ processed_transactions' =
                    Rollback(processed_transactions \cup {h}, h)
               /\ superseded' = superseded \ {u}
               /\ deferred' = deferred \ {h}
               /\ CycleAborted
          ELSE /\ user_data' = ud
               /\ pending_ton_payments' = SeqFilterOut(pending_ton_payments, {u})
               /\ processed_transactions' = processed_transactions \cup {h}
               /\ superseded' = superseded \ {u}
               /\ deferred' = deferred \ {h}
               /\ NextTx
  /\ UNCHANGED <<recent_transaction_cache, cache_cleanup_time, now,
                 users_to_remove, stars_pc, ticks, spin_events, stars_events>>
  /\ UNCHANGED api_request
  /\ LET h == Head(relevant_transactions)
         m == MatchIndex(h, pending_ton_payments)
     IN IF Confirmed(confirmation) /\ m # 0 /\ failure # "save_tx"
        THEN LET u == pending_ton_payments[m].user_id IN
             \* line 651 saves the payer's row; line 656 deletes the intent row
             /\ db_users' = save_user_data_to_db(db_users, u, user_data'[u])
             /\ db_pending' = IF failure = "none"
                              THEN remove_pending_payment(db_pending, {u})
                              ELSE db_pending
        ELSE UNCHANGED <<db_users, db_pending>>
  /\ UNCHANGED last_wallet_check
  /\ UNCHANGED utilVars

(***************************************************************************)
(* Specification of the payment rail with the handlers around it.           *)
(***************************************************************************)
Init ==
  /\ user_data = [u \in {} |-> NewAccount]
  /\ pending_ton_payments = <<>>
  /\ processed_transactions = {}
  /\ recent_transaction_cache = {}
  /\ cache_cleanup_time = 0
  /\ now = 0
  /\ pc = "sleep"
  /\ relevant_transactions = <<>>
  /\ transactions = <<>>
  /\ users_to_remove = {}
  /\ stars_pc = [u \in Users |-> "idle"]
  /\ deferred = {}
  /\ superseded = {}
  /\ ticks = 0
  /\ spin_events = 0
  /\ stars_events = 0
  /\ db_users = [u \in {} |-> DbRow(NewAccount)]
  /\ db_pending = {}
  /\ api_request = IdleRequest
  /\ last_wallet_check = last_wallet_check_start
  /\ InitUtils

Referrers == Users \cup INFLUENCERS \cup {NoReferrer}

\* check_new_ton_payments line 491: max_pages=2
MAX_PAGES == 2

\* what _make_ton_api_request hands back: the parsed body, the soft failure
\* {"ok": False, ...}, or a body that parses to None
ReplyStatus == {"ok", "failed", "null"}

\* the reply to one page request of _get_transactions_ton_api
PageReplies == [status : ReplyStatus, transactions : SeqsUpTo(Hashes, PageSize)]

\* the replies to the account request and to the page requests of one listing
IndexerReplies == [account : ReplyStatus, pages : [1..MAX_PAGES -> PageReplies]]

RECURSIVE Paginate(_, _, _)
\* _get_transactions_ton_api lines 111-137: the page loop.  A soft failure or
\* an empty page breaks and keeps what was collected; a None body raises at
\* line 120 and the handler at lines 140-142 returns the empty list.
Paginate(pages, all_txs, limit) ==
  IF pages = <<>> THEN all_txs
  ELSE LET data == Head(pages) IN
       IF data.status = "null" THEN <<>>
       ELSE IF data.status = "failed" \/ data.transactions = <<>> THEN all_txs
       ELSE LET all == all_txs \o data.transactions IN
            IF Len(all) >= limit THEN all
            ELSE Paginate(Tail(pages), all, limit)

get_transactions_with_paginationMutant(reply) ==
  Paginate(reply.pages, <<>>, MaxFetch)

\* TONAPIClient.get_transactions_with_pagination lines 81-142
get_transactions_with_pagination(reply) ==
  IF reply.account # "ok" THEN <<>>
  ELSE Paginate(reply.pages, <<>>, MaxFetch)

\* the listings check_new_ton_payments can receive
Listings == {get_transactions_with_pagination(r) : r \in IndexerReplies}

\* the reconciliation loop
Reconcile ==
  \/ Sweep
  \/ \E k \in 1..NumUsers : SweepFails(k)
  \/ BeginCheck
  \/ \E listing \in Listings : Fetch(listing)
  \/ \E c \in ConfirmResults, f \in Failures : ProcessTx(c, f)

Next ==
  \/ \E u \in Users, r \in Referrers : start_command(u, r)
  \/ \E u \in Users, k \in BuyKeys, id \in PaymentIds : handle_package(u, k, id)
  \/ \E u \in Users : reset_command(u)
  \/ \E d \in Deltas : Tick(d)
  \/ Reconcile

Spec == Init /\ [][Next]_vars

\* ton_payment_checker is an asyncio task created at start-up (line 7302):
\* each of its awaits (indexer request, confirmation check, sleep) returns or
\* raises, so the step that follows is eventually taken
SpecLoop == Init /\ [][Next]_vars /\ WF_vars(Reconcile)

(***************************************************************************)
(* Specification of both rails: the loop together with Stars payments and   *)
(* spins, at one instant of the clock.                                      *)
(***************************************************************************)
Spin ==
  /\ spin_events < MaxSpinEvents
  /\ \E u \in Users, d \in DiceValues : handle_slot_machine(u, d)

NextRails ==
  \/ \E u \in Users, r \in Referrers : start_command(u, r)
  \/ \E u \in Users, k \in BuyKeys, id \in PaymentIds : handle_package(u, k, id)
  \/ \E u \in Users, k \in BuyKeys : StarsActivate(u, k)
  \/ \E u \in Users : StarsFinish(u)
  \/ \E u \in Users : StarsReplyFails(u)
  \/ Spin
  \/ Reconcile

SpecRails == Init /\ [][NextRails]_vars

(***************************************************************************)
(* Specification of the spin engine: one account right after a package has  *)
(* been activated on either rail, then spins until the package is lost.     *)
(***************************************************************************)
\* spin points the account holds when the package is activated
StartPoints == {0, 15, 95}

InitSpin ==
  /\ \E k \in AllKeys, m \in {"ton", "stars"}, p \in StartPoints :
       \E l \in {"Spinner", calculate_level(p)} :
        user_data =
          [u \in {1} |->
             Activate([NewAccount EXCEPT !.spin_points = p, !.level = l], k, m)]
  /\ pending_ton_payments = <<>>
  /\ processed_transactions = {}
  /\ recent_transaction_cache = {}
  /\ cache_cleanup_time = 0
  /\ now = 0
  /\ pc = "sleep"
  /\ relevant_transactions = <<>>
  /\ transactions = <<>>
  /\ users_to_remove = {}
  /\ stars_pc = [u \in Users |-> "idle"]
  /\ deferred = {}
  /\ superseded = {}
  /\ ticks = 0
  /\ spin_events = 0
  /\ stars_events = 0
  /\ db_users = [u \in DOMAIN user_data |-> DbRow(user_data[u])]
  /\ db_pending = {}
  /\ api_request = IdleRequest
  /\ last_wallet_check = last_wallet_check_start
  /\ InitUtils

NextSpin == \E d \in DiceValues : handle_slot_machine(1, d)

SpecSpin == InitSpin /\ [][NextSpin]_vars

(***************************************************************************)
(* Specification of the referral reward: a referred payer with a pending    *)
(* intent and the referrer's account, then the loop and Stars payments.     *)
(***************************************************************************)
\* the referrer: a regular user who joined before the payer (start_command
\* lines 833-857 stored the id and counted the referral)
ReferrerId == NumUsers + 2

InitReferral ==
  /\ \E p \in StartPoints, k \in BuyKeys, pp \in {0, WELCOME_BONUS} :
       /\ user_data =
            [x \in {1, ReferrerId} |->
               IF x = 1
               THEN [NewAccount EXCEPT !.referred_by = ReferrerId,
                                       !.spin_points = pp]
               ELSE [NewAccount EXCEPT !.referrals = 1, !.spin_points = p,
                                       !.level = calculate_level(p)]]
       /\ pending_ton_payments =
            <<[user_id |-> 1, package |-> k,
               expected_amount |-> PACKAGES[k].nano,
               timestamp |-> 0, payment_id |-> "pidA"]>>
  /\ processed_transactions = {}
  /\ recent_transaction_cache = {}
  /\ cache_cleanup_time = 0
  /\ now = 0
  /\ pc = "sleep"
  /\ relevant_transactions = <<>>
  /\ transactions = <<>>
  /\ users_to_remove = {}
  /\ stars_pc = [u \in Users |-> "idle"]
  /\ deferred = {}
  /\ superseded = {}
  /\ ticks = 0
  /\ spin_events = 0
  /\ stars_events = 0
  /\ db_users = [u \in DOMAIN user_data |-> DbRow(user_data[u])]
  /\ db_pending = {}
  /\ api_request = IdleRequest
  /\ last_wallet_check = last_wallet_check_start
  /\ InitUtils

NextReferral ==
  \/ \E k \in AllKeys : StarsActivate(1, k)
  \/ StarsFinish(1)
  \/ StarsReplyFails(1)
  \/ Reconcile

SpecReferral == InitReferral /\ [][NextReferral]_vars

(***************************************************************************)
(* Specification of one indexer request: TONAPIClient._make_ton_api_request *)
(* around ErrorRecovery.retry_with_backoff.                                 *)
(***************************************************************************)
\* TONAPIClient.__init__ lines 21-22
MAX_RETRIES == 3
BASE_DELAY == 1

\* what one attempt meets: an HTTP status, or requests.get raising a timeout
\* or a connection error
Outcomes == {"200", "429", "500", "404", "timeout"}

\* the attempts the server is prepared to answer, one more than the client
\* may make
ServerScripts == [1..(MAX_RETRIES + 1) -> Outcomes]

RECURSIVE Pow2(_)
Pow2(n) == IF n = 0 THEN 1 ELSE 2 * Pow2(n - 1)

\* make_request lines 36-66: the body for 200, TONAPIError raised for 429 and
\* 5xx, {"ok": False} returned for any other status and for every other
\* exception (line 64)
make_request(outcome) ==
  IF outcome = "200" THEN "ok"
  ELSE IF outcome \in {"429", "500"} THEN "TONAPIError"
  ELSE "soft_failure"

\* retry_with_backoff lines 160-173 for one pass of the loop: call the
\* function; return its value, or on an exception sleep before the next
\* attempt, or after the last attempt raise, which _make_ton_api_request
\* (lines 76-79) turns into {"ok": False}
retry_attempt ==
  /\ api_request.phase = "request"
  /\ api_request.attempt < MAX_RETRIES
  /\ LET attempt == api_request.attempt
         r == make_request(api_request.server[attempt + 1])
     IN api_request' =
          IF r # "TONAPIError"
          THEN [api_request EXCEPT !.attempt = attempt + 1, !.phase = "done",
                                   !.result = r]
          ELSE IF attempt < MAX_RETRIES - 1
          THEN [api_request EXCEPT !.attempt = attempt + 1, !.phase = "sleep",
                                   !.delays = Append(@, BASE_DELAY * Pow2(attempt))]
          ELSE [api_request EXCEPT !.attempt = attempt + 1, !.phase = "done",
                                   !.result = "soft_failure"]
  /\ UNCHANGED <<user_data, payVars, now, stars_pc, ticks, spin_events,
                 stars_events>>
  /\ UNCHANGED <<db_users, db_pending>>
  /\ UNCHANGED last_wallet_check
  /\ UNCHANGED utilVars

\* retry_with_backoff line 171: asyncio.sleep(delay) returns
retry_sleep_done ==
  /\ api_request.phase = "sleep"
  /\ api_request' = [api_request EXCEPT !.phase = "request"]
  /\ UNCHANGED <<user_data, payVars, now, stars_pc, ticks, spin_events,
                 stars_events>>
  /\ UNCHANGED <<db_users, db_pending>>
  /\ UNCHANGED last_wallet_check
  /\ UNCHANGED utilVars

InitRetry ==
  /\ user_data = [u \in {} |-> NewAccount]
  /\ pending_ton_payments = <<>>
  /\ processed_transactions = {}
  /\ recent_transaction_cache = {}
  /\ cache_cleanup_time = 0
  /\ now = 0
  /\ pc = "sleep"
  /\ relevant_transactions = <<>>
  /\ transactions = <<>>
  /\ users_to_remove = {}
  /\ stars_pc = [u \in Users |-> "idle"]
  /\ deferred = {}
  /\ superseded = {}
  /\ ticks = 0
  /\ spin_events = 0
  /\ stars_events = 0
  /\ db_users = [u \in {} |-> DbRow(NewAccount)]
  /\ db_pending = {}
  /\ \E script \in ServerScripts :
       api_request = [IdleRequest EXCEPT !.server = script, !.phase = "request"]
  /\ last_wallet_check = last_wallet_check_start
  /\ InitUtils

NextRetry ==
  \/ retry_attempt
  \/ retry_sleep_done

SpecRetry == InitRetry /\ [][NextRetry]_vars

(***************************************************************************)
(* Properties of the reconciliation loop, checked under Spec.               *)
(***************************************************************************)
\* C1: idempotency under re-delivery.  A hash that is in the processed ledger
\* and is returned again by a later listing is skipped: the cycle selects
\* exactly the relevant transactions it would select for the listing without
\* the applied hashes, the filtering step itself changes no account, intent
\* or ledger entry, and no applied hash is ever queued for confirmation.
C1_Idempotent ==
  /\ [](\A i \in 1..Len(relevant_transactions) :
           relevant_transactions[i] \notin processed_transactions)
  /\ [][\A listing \in Listings :
          (Fetch(listing) /\ listing # <<>>) =>
            LET keep(h) == h \notin processed_transactions
                rest == SelectSeq(listing, keep)
            IN /\ relevant_transactions' =
                    Prefilter(rest, processed_transactions, pending_ton_payments,
                              {}, recent_transaction_cache, <<>>).relevant
               /\ UNCHANGED <<user_data, pending_ton_payments,
                              processed_transactions>>]_vars

\* a listing under confirmation that held an applied hash which the seen-cache
\* no longer covers and which a current intent would match
C1_Witness ==
  /\ pc = "confirm"
  /\ \E h \in SeqToSet(transactions) :
        /\ h \in processed_transactions
        /\ h \notin recent_transaction_cache
        /\ Relevant(h, pending_ton_payments)

\* C2: confirmation gating.  A matching transaction whose confirmation check
\* does not report confirmed changes no account, intent or ledger entry; it
\* is checked again in the next cycle that lists it, and the cycle whose
\* check reports confirmed records the hash, removes the intent and activates
\* the package with its spins, hits = 0 and total_spins = 0.
C2_AppliedNextCycle ==
  [][/\ \A c \in ConfirmResults, f \in Failures :
          (ProcessTx(c, f) /\ ~Confirmed(c)) =>
             UNCHANGED <<user_data, pending_ton_payments, processed_transactions>>
     /\ \A listing \in Listings :
          Fetch(listing) =>
             \A h \in SeqToSet(listing) \cap deferred :
                (/\ h \notin processed_transactions
                 /\ Relevant(h, pending_ton_payments)
                 /\ MatchIndex(h, pending_ton_payments) # 0)
                  => h \in SeqToSet(relevant_transactions')
     /\ (/\ ProcessTx("confirmed", "none")
         /\ MatchIndex(Head(relevant_transactions), pending_ton_payments) # 0) =>
          LET h == Head(relevant_transactions)
              p == pending_ton_payments[MatchIndex(h, pending_ton_payments)]
              a == user_data'[p.user_id]
          IN /\ h \in processed_transactions'
             /\ p.user_id \notin PendingUsers'
             /\ a.package = PACKAGES[p.package].name
             /\ a.spins_available = PACKAGES[p.package].spins
             /\ a.hits = 0
             /\ a.total_spins = 0]_vars

\* C3: amount tolerance.  A listed transaction that has not been seen and
\* carries the payment id of a pending intent is taken up by the cycle when
\* its amount equals the expected amount or differs from it by at most the
\* tolerance of 1 nano, and no transaction is applied whose amount differs
\* from the expected amount by 2 nano or more.
C3_Tolerance ==
  [][/\ \A listing \in Listings :
          Fetch(listing) =>
             \A h \in SeqToSet(listing) :
                (/\ h \notin processed_transactions
                 /\ h \notin recent_transaction_cache
                 /\ MatchIndex(h, pending_ton_payments) # 0)
                  => h \in SeqToSet(relevant_transactions')
     /\ \A h \in Hashes :
          (h \in processed_transactions' /\ h \notin processed_transactions) =>
             \E i \in 1..Len(pending_ton_payments) :
                /\ IdInText(pending_ton_payments[i].payment_id, TxText(h))
                /\ WithinTolerance(pending_ton_payments[i].expected_amount,
                                   TxAmount(h))]_vars

\* C4: partial-failure durability.  Once the hash of a confirmed, matched
\* transaction has been added to the processed ledger, it stays there even
\* when the account mutation, the referral step, the removal of the intent
\* or a notification raises: the entry is never rolled back.
C4_LedgerEntryKept ==
  [][\A c \in ConfirmResults, f \in Failures :
       (/\ ProcessTx(c, f)
        /\ Confirmed(c)
        /\ MatchIndex(Head(relevant_transactions), pending_ton_payments) # 0)
         => Head(relevant_transactions) \in processed_transactions']_vars

\* C7: expiry boundary.  A sweep at T + TTL - 1 or earlier keeps the intent
\* created at T of a user without an active package; a sweep at T + TTL + 1
\* or later removes it, and removes it without crediting anyone (TTL = 3600).
C7_ExpiryBoundary ==
  [][Sweep =>
       \A i \in 1..Len(pending_ton_payments) :
          LET p == pending_ton_payments[i]
              age == now - p.timestamp
          IN /\ (age <= TON_PAYMENT_EXPIRY - 1 /\ ~Superseded(user_data, p.user_id))
                  => p \in SeqToSet(pending_ton_payments')
             /\ (age >= TON_PAYMENT_EXPIRY + 1)
                  => /\ p.user_id \notin PendingUsers'
                     /\ UNCHANGED <<user_data, processed_transactions>>]_vars

\* the sweep at T + TTL + 1 has just removed the intent a user without a
\* package created at T = 0
C7_Witness ==
  /\ pc = "check"
  /\ now = TON_PAYMENT_EXPIRY + 1
  /\ \E u \in users_to_remove : HasUser(u) /\ ~ActivePackage(user_data[u])

(***************************************************************************)
(* Properties of the two rails together, checked under SpecRails.           *)
(***************************************************************************)
\* C5: mutual exclusion of pending intent and active package.  After a sweep
\* no user holds both an active package with payment_method set and a pending
\* TON intent, so the two never coexist beyond one reconciliation cycle; and
\* the step in which a confirmed payment establishes the package also removes
\* the intent.
C5_MutualExclusion ==
  [][/\ Sweep =>
          \A u \in PendingUsers' :
             ~(/\ u \in DOMAIN user_data'
               /\ ActivePackage(user_data'[u])
               /\ user_data'[u].payment_method # NoMethod)
     /\ \A c \in ConfirmResults, f \in Failures :
          (/\ ProcessTx(c, f)
           /\ Confirmed(c)
           /\ MatchIndex(Head(relevant_transactions), pending_ton_payments) # 0
           /\ user_data' # user_data)
            => LET m == MatchIndex(Head(relevant_transactions), pending_ton_payments)
                   u == pending_ton_payments[m].user_id
               IN /\ u \notin PendingUsers'
                  /\ ActivePackage(user_data'[u])]_vars

\* the sweep has just removed the intent of a user who held an active, paid
\* package next to it
C5_Witness ==
  /\ pc = "check"
  /\ \E u \in users_to_remove :
        /\ HasUser(u)
        /\ ActivePackage(user_data[u])
        /\ user_data[u].payment_method # NoMethod

\* C6: supersede sweep.  The pending TON intent of a user who activates a
\* package through Stars is gone when the Stars handler ends, and at the
\* latest after the next sweep, so no later transaction can be matched to it.
C6_SupersededIntentRemoved ==
  [][/\ \A u \in Users : StarsFinish(u) => u \notin PendingUsers'
     /\ Sweep => \A u \in superseded : u \notin PendingUsers']_vars

(***************************************************************************)
(* Properties of the spin engine, checked under SpecSpin.                   *)
(***************************************************************************)
\* C8: hit threshold.  With a package requiring N hits, a winning spin that
\* brings hits to N takes the NFT-earned reset; a winning spin that brings
\* hits to less than N awards no NFT and, when spins remain, leaves the
\* package active with the incremented hits (N - 1 after the (N-1)-th win).
C8_HitThreshold ==
  [][\A u \in DOMAIN user_data :
       LET a == user_data[u]
           b == user_data'[u]
           N == required_hits[a.package]
       IN (handle_slot_machine(u, WINNING_DICE) /\ a.package # None) =>
            /\ (a.hits + 1 = N) =>
                 /\ b.package = None
                 /\ b.hits = 0
                 /\ Len(b.nfts) = Len(a.nfts) + 1
            /\ (a.hits + 1 < N) =>
                 /\ b.nfts = a.nfts
                 /\ (a.spins_available > 1) =>
                      /\ b.package = a.package
                      /\ b.hits = a.hits + 1]_vars

\* an account reset by the N-th win of a package that needs more than one hit
C8_Witness ==
  \E u \in DOMAIN user_data :
     /\ user_data[u].package = None
     /\ Len(user_data[u].nfts) = 1
     /\ required_hits[user_data[u].nfts[1][1]] > 1
     /\ user_data[u].all_time_hits = required_hits[user_data[u].nfts[1][1]]

\* C9: NFT priority over exhaustion.  A winning spin made with one spin left
\* and hits = N - 1 takes the NFT-earned transition: one NFT of the package
\* pool is appended, the package becomes none, and spins_available,
\* total_spins and hits become 0; it is not treated as plain exhaustion.
C9_NftPriority ==
  [][\A u \in DOMAIN user_data :
       LET a == user_data[u]
           b == user_data'[u]
       IN (/\ handle_slot_machine(u, WINNING_DICE)
           /\ a.package # None
           /\ a.spins_available = 1
           /\ a.hits = required_hits[a.package] - 1) =>
            /\ Len(b.nfts) = Len(a.nfts) + 1
            /\ SubSeq(b.nfts, 1, Len(a.nfts)) = a.nfts
            /\ b.nfts[Len(b.nfts)] \in NFT_DROPS[a.package]
            /\ b.package = None
            /\ b.spins_available = 0
            /\ b.total_spins = 0
            /\ b.hits = 0]_vars

\* an account whose last spin of the package was the win that earned the NFT
C9_Witness ==
  \E u \in DOMAIN user_data, k \in AllKeys :
     /\ user_data[u].package = None
     /\ Len(user_data[u].nfts) = 1
     /\ user_data[u].nfts[1][1] = PACKAGES[k].name
     /\ user_data[u].all_time_spins = PACKAGES[k].spins
     /\ user_data[u].all_time_hits = PACKAGES[k].hits_required

\* C10: non-winning spin.  A spin that does not win adds 1 to total_spins,
\* takes 1 from spins_available (never below 0) and leaves hits, spin_points
\* and nfts alone; when spins_available reaches 0 the package becomes none,
\* total_spins and hits are reset to 0 and the level is recomputed from the
\* unchanged spin_points.
C10_NonWinningSpin ==
  [][\A u \in DOMAIN user_data, d \in DiceValues \ {WINNING_DICE} :
       LET a == user_data[u]
           b == user_data'[u]
       IN handle_slot_machine(u, d) =>
            /\ b.spin_points = a.spin_points
            /\ b.nfts = a.nfts
            /\ b.spins_available = Max(0, a.spins_available - 1)
            /\ IF b.spins_available = 0
               THEN /\ b.package = None
                    /\ b.total_spins = 0
                    /\ b.hits = 0
                    /\ b.level = calculate_level(a.spin_points)
               ELSE /\ b.package = a.package
                    /\ b.total_spins = a.total_spins + 1
                    /\ b.hits = a.hits
                    /\ b.level = a.level]_vars

\* an account that spent every spin of its package without a win and whose
\* level was recomputed from its 95 points on exhaustion
C10_Witness ==
  \E u \in DOMAIN user_data, k \in AllKeys :
     /\ user_data[u].package = None
     /\ user_data[u].nfts = <<>>
     /\ user_data[u].all_time_hits = 0
     /\ user_data[u].all_time_spins = PACKAGES[k].spins
     /\ user_data[u].spin_points = 95
     /\ user_data[u].level = calculate_level(95)

\* C11: winning spin.  A spin wins exactly when the dice value is 64.  A win
\* adds HIT_POINTS to spin_points whatever the package is and recomputes the
\* level from the new total; it adds 1 to hits exactly when a package is
\* active, the same 1 for every tier, and nothing otherwise.  In the handler
\* the win counts 1 in all_time_hits and the hits counter is the incremented
\* one unless the spin also loses the package, which resets it to 0.
C11_WinningSpin ==
  /\ [](\A u \in DOMAIN user_data, d \in DiceValues :
         LET a == user_data[u]
             r == calculate_spin_result(d, a)
         IN /\ r.is_winning <=> (d = WINNING_DICE)
            /\ ~r.is_winning => r.user = a
            /\ r.is_winning =>
                 /\ r.user.spin_points = a.spin_points + HIT_POINTS
                 /\ r.user.level = calculate_level(a.spin_points + HIT_POINTS)
                 /\ r.user.hits = a.hits + (IF a.package # None THEN 1 ELSE 0)
                 /\ r.hits = (IF a.package # None THEN 1 ELSE 0))
  /\ [][\A u \in DOMAIN user_data, d \in DiceValues :
         LET a == user_data[u]
             b == user_data'[u]
         IN handle_slot_machine(u, d) =>
              IF d = WINNING_DICE
              THEN /\ b.spin_points = a.spin_points + HIT_POINTS
                   /\ b.level = calculate_level(a.spin_points + HIT_POINTS)
                   /\ b.all_time_hits = a.all_time_hits + 1
                   /\ b.hits = (IF b.package # None THEN a.hits + 1 ELSE 0)
              ELSE /\ b.spin_points = a.spin_points
                   /\ b.all_time_hits = a.all_time_hits]_vars

\* an account that started with 15 points and a stale level, won once and
\* still holds its package: 25 points, the level of 25 points, one hit
C11_Witness ==
  \E u \in DOMAIN user_data :
     /\ user_data[u].package \in {"Silver", "Gold", "Black"}
     /\ user_data[u].all_time_hits = 1
     /\ user_data[u].hits = 1
     /\ user_data[u].spin_points = 15 + HIT_POINTS
     /\ user_data[u].level = calculate_level(15 + HIT_POINTS)

\* C12: creating a pending intent is refused as already active, and no intent
\* is created or changed, whenever the user holds an active package or already
\* has a pending intent; each user has at most one pending intent.
C12_AlreadyActive ==
  /\ [](\A u \in DOMAIN user_data, k \in AllKeys :
         (ActivePackage(user_data[u]) \/ u \in PendingUsers) =>
            handle_package_reply(user_data, pending_ton_payments, u, k) =
              "already_have_package_error")
  /\ [](\A i, j \in 1..Len(pending_ton_payments) :
         pending_ton_payments[i].user_id = pending_ton_payments[j].user_id => i = j)
  /\ [][\A u \in Users, k \in AllKeys, id \in PaymentIds :
         handle_package(u, k, id) =>
            (~ActivePackage(user_data[u]) /\ u \notin PendingUsers)]_vars

(***************************************************************************)
(* Properties of the two payment rails, checked under SpecRails.            *)
(***************************************************************************)
\* C13: one active package at a time.  While the package of an account is not
\* none, no purchase step of either rail (selecting a package for TON, a
\* matched TON transaction, a Stars successful payment) activates a package
\* for it or resets its spins_available, hits or total_spins.
C13_OneActivePackage ==
  [][\A u \in DOMAIN user_data :
       LET a == user_data[u]
           b == user_data'[u]
       IN (/\ ActivePackage(a)
           /\ \/ \E k \in AllKeys, id \in PaymentIds : handle_package(u, k, id)
              \/ \E k \in AllKeys : StarsActivate(u, k)
              \/ \E c \in ConfirmResults, f \in Failures : ProcessTx(c, f)) =>
            /\ b.package = a.package
            /\ b.spins_available = a.spins_available
            /\ b.hits = a.hits
            /\ b.total_spins = a.total_spins]_vars

\* C14: both rails apply the same activation.  From the same account state,
\* activating package P through the TON rail and through the Stars rail gives
\* accounts equal in package, spins_available, hits, total_spins, spin_points
\* and level; they differ in payment_method only.
C14_SameActivation ==
  \A u \in DOMAIN user_data, k \in AllKeys :
     LET t == ApplyPayment(user_data, u, k)[u]
         s == StarsApply(user_data, u, k)[u]
     IN /\ t.package = s.package
        /\ t.spins_available = s.spins_available
        /\ t.hits = s.hits
        /\ t.total_spins = s.total_spins
        /\ t.spin_points = s.spin_points
        /\ t.level = s.level
        /\ t.payment_method = "ton"
        /\ s.payment_method = "stars"

\* C15: on both rails a payment event changes the account only when its id
\* (the chain transaction hash, the Stars synthetic id) is absent from the
\* processed ledger, so that an event delivered twice is credited once.
C15_LedgerCheckedFirst ==
  [][/\ \A u \in Users, k \in AllKeys :
          StarsActivate(u, k) => <<"stars", u, k, now>> \notin processed_transactions
     /\ \A c \in ConfirmResults, f \in Failures :
          (ProcessTx(c, f) /\ user_data' # user_data) =>
             Head(relevant_transactions) \notin processed_transactions]_vars

\* C20: a notification failure never loses an activation.  On either rail,
\* when the notification that follows a confirmed payment cannot be sent,
\* the ledger entry of the payment is written and the payer's pending intent
\* is removed all the same.
C20_NotificationFailure ==
  [][/\ \A u \in Users :
          StarsReplyFails(u) =>
            /\ <<"stars", u, stars_pc[u], now>> \in processed_transactions'
            /\ u \notin PendingUsers'
     /\ \A c \in ConfirmResults :
          (ProcessTx(c, "none") /\ user_data' # user_data) =>
            /\ Head(relevant_transactions) \in processed_transactions'
            /\ \A u \in PendingUsers \ PendingUsers' :
                  user_data'[u].payment_method = "ton"
            /\ PendingUsers' # PendingUsers]_vars

(***************************************************************************)
(* Properties of the referral reward, checked under SpecReferral.           *)
(***************************************************************************)
\* C16: referral reward.  When a payment for package P is confirmed, on
\* either rail, for a payer whose referred_by is an account R of the store,
\* the same step adds exactly P's reward (Bronze 5, Silver 10, Gold 25,
\* Black 50) to R's spin_points, whatever the payer's own spin_points gain
\* in that step (the welcome bonus on TON, welcome bonus and purchase points
\* on Stars).
C16_ReferralReward ==
  [][\A u \in Users :
       LET R == user_data[u].referred_by
           reward == [k \in AllKeys |->
                        CASE k = "bronze" -> 5 [] k = "silver" -> 10
                          [] k = "gold" -> 25 [] k = "black" -> 50]
           h == Head(relevant_transactions)
           m == MatchIndex(h, pending_ton_payments)
       IN (u \in DOMAIN user_data /\ R # NoReferrer /\ R \in DOMAIN user_data) =>
            /\ \A k \in AllKeys :
                 StarsActivate(u, k) =>
                   /\ user_data'[R].spin_points = user_data[R].spin_points + reward[k]
                   /\ user_data'[u].spin_points =
                        user_data[u].spin_points + WELCOME_BONUS + PACKAGE_POINTS[k]
            /\ \A c \in ConfirmResults, f \in Failures :
                 (/\ ProcessTx(c, f)
                  /\ user_data' # user_data
                  /\ pending_ton_payments[m].user_id = u) =>
                   /\ user_data'[R].spin_points =
                        user_data[R].spin_points + reward[pending_ton_payments[m].package]
                   /\ user_data'[u].spin_points =
                        user_data[u].spin_points + WELCOME_BONUS]_vars

\* the referrer who started with 15 points holds 25 after the referred payer
\* bought Silver
C16_Witness ==
  /\ ReferrerId \in DOMAIN user_data
  /\ user_data[ReferrerId].spin_points = 15 + 10
  /\ user_data[1].package = "Silver"
  /\ user_data[1].referred_by = ReferrerId

(***************************************************************************)
(* Properties of the loop as a task, checked under SpecLoop.                *)
(***************************************************************************)
\* C17: the reconciliation loop never terminates.  An exception raised inside
\* a cycle (in the sweep, or while a matched transaction is applied) is
\* caught and ends that cycle with the loop back at its sleep, and a cycle
\* start (the sweep that opens a cycle) happens again and again, for ever.
C17_LoopNeverTerminates ==
  /\ [][((\E k \in 1..NumUsers : SweepFails(k))
          \/ (\E c \in ConfirmResults, f \in Failures \ {"none"} : ProcessTx(c, f)))
         => (pc' = "sleep" /\ relevant_transactions' = <<>>)]_vars
  /\ [](pc \in {"sleep", "check", "fetch", "confirm"})
  /\ []<><<Sweep \/ (\E k \in 1..NumUsers : SweepFails(k))>>_vars

\* a cycle has started after the cycle in which removing the intent raised:
\* the package is active through TON while its hash was rolled back
C17_Witness ==
  /\ pc = "check"
  /\ processed_transactions = {}
  /\ \E u \in DOMAIN user_data : user_data[u].payment_method = "ton"

\* C18: the transaction listing fails soft.  Whatever the indexer replies,
\* get_transactions_with_pagination yields a list of transactions; it is the
\* empty list whenever the account request or the first page request fails,
\* and so when every request fails.  A cycle that receives the empty list
\* ends there: the loop is back at its sleep and no account, pending intent,
\* ledger entry or seen-cache entry has changed.
C18_ListingFailsSoft ==
  /\ [](\A r \in IndexerReplies :
         LET txs == get_transactions_with_pagination(r) IN
         /\ SeqToSet(txs) \subseteq Hashes
         /\ (r.account # "ok" \/ r.pages[1].status # "ok") => txs = <<>>)
  /\ [][Fetch(<<>>) =>
         /\ pc' = "sleep"
         /\ UNCHANGED <<user_data, pending_ton_payments, processed_transactions,
                        recent_transaction_cache, relevant_transactions,
                        transactions>>]_vars

\* after the clock advanced, a cycle cleared the seen-cache, asked for the
\* listing, received nothing and ended: the intent is still pending and no
\* hash has been seen or recorded
C18_Witness ==
  /\ pc = "sleep"
  /\ now > 0
  /\ cache_cleanup_time = now
  /\ recent_transaction_cache = {}
  /\ processed_transactions = {}
  /\ pending_ton_payments # <<>>
  /\ \A u \in DOMAIN user_data : user_data[u].package = None

(***************************************************************************)
(* Properties of one indexer request, checked under SpecRetry.              *)
(***************************************************************************)
\* C19: every request that fails transiently (timeout or connection error,
\* HTTP 429, HTTP 5xx) is retried with exponentially growing delays, up to
\* MAX_RETRIES attempts, before the soft failure is returned: a soft failure
\* whose last attempt failed transiently comes after exactly 3 attempts and
\* the delays 1 and 2.  No request is attempted more than 3 times.
C19_TransientRetried ==
  /\ api_request.attempt <= MAX_RETRIES
  /\ \A i \in 1..Len(api_request.delays) :
        api_request.delays[i] = BASE_DELAY * Pow2(i - 1)
  /\ (/\ api_request.phase = "done"
      /\ api_request.result = "soft_failure"
      /\ api_request.server[api_request.attempt] \in {"timeout", "429", "500"}) =>
        /\ api_request.attempt = MAX_RETRIES
        /\ api_request.delays = <<BASE_DELAY, 2 * BASE_DELAY>>

(***************************************************************************)
(* Properties of durable storage.                                           *)
(***************************************************************************)
\* C21: after every spin the account the spin left, the NFT appended by an
\* NFT-earned spin included, has been written to the users table before the
\* replies are sent: the stored row equals the account in memory.
C21_SpinDurable ==
  [][\A u \in DOMAIN user_data, d \in DiceValues :
       handle_slot_machine(u, d) =>
         /\ u \in DOMAIN db_users'
         /\ db_users'[u] = DbRow(user_data'[u])]_vars

(***************************************************************************)
(* Specification of the life of one intent: a user with a pending intent,   *)
(* the loop, the wall clock and Stars payments.                             *)
(***************************************************************************)
\* the wall clock (time.time()) advances at any moment, for as long as an
\* intent in the map is not older than the expiry
Elapse(d) ==
  /\ \E i \in 1..Len(pending_ton_payments) :
        now - pending_ton_payments[i].timestamp <= TON_PAYMENT_EXPIRY
  /\ now' = now + d
  /\ UNCHANGED <<user_data, payVars, stars_pc, ticks, spin_events, stars_events>>
  /\ UNCHANGED api_request
  /\ UNCHANGED <<db_users, db_pending>>
  /\ UNCHANGED last_wallet_check
  /\ UNCHANGED utilVars

\* user 1 has selected a package: handle_package lines 1242-1247 at time 0
InitExpiry ==
  /\ user_data = [u \in {1} |-> NewAccount]
  /\ \E k \in BuyKeys, id \in PaymentIds :
       pending_ton_payments =
         <<[user_id |-> 1, package |-> k,
            expected_amount |-> PACKAGES[k].nano,
            timestamp |-> 0, payment_id |-> id]>>
  /\ processed_transactions = {}
  /\ recent_transaction_cache = {}
  /\ cache_cleanup_time = 0
  /\ now = 0
  /\ pc = "sleep"
  /\ relevant_transactions = <<>>
  /\ transactions = <<>>
  /\ users_to_remove = {}
  /\ stars_pc = [u \in Users |-> "idle"]
  /\ deferred = {}
  /\ superseded = {}
  /\ ticks = 0
  /\ spin_events = 0
  /\ stars_events = 0
  /\ db_users = [u \in DOMAIN user_data |-> DbRow(user_data[u])]
  /\ db_pending = {}
  /\ api_request = IdleRequest
  /\ last_wallet_check = last_wallet_check_start
  /\ InitUtils

Clock == \E d \in Deltas : Elapse(d)

NextExpiry ==
  \/ Clock
  \/ \E k \in AllKeys : StarsActivate(1, k)
  \/ StarsFinish(1)
  \/ StarsReplyFails(1)
  \/ Reconcile

\* ton_payment_checker is a task of the event loop whose awaits all return or
\* raise within their timeouts, and the wall clock advances whatever the
\* program does
SpecExpiry ==
  InitExpiry /\ [][NextExpiry]_vars /\ WF_vars(Reconcile) /\ WF_vars(Clock)

(***************************************************************************)
(* Specification of the loop suspended at its awaits while the handlers     *)
(* that remove an intent run: both rails, spins and the /reset command.     *)
(***************************************************************************)
NextSuspended ==
  \/ NextRails
  \/ \E u \in Users : reset_command(u)

SpecSuspended == Init /\ [][NextSuspended]_vars

(***************************************************************************)
(* Specification of the account fields: an account with a package, its      *)
(* spins, the /reset command and the admin reset of user data.              *)
(***************************************************************************)
NextAccount ==
  \/ \E d \in DiceValues : handle_slot_machine(1, d)
  \/ reset_command(1)
  \/ admin_confirm_reset_user_data_callback(1)

SpecAccount == InitSpin /\ [][NextAccount]_vars

(***************************************************************************)
(* Specification with the admin operations: accounts, Stars payments,       *)
(* spins and /reset together with the admin package grants and the admin    *)
(* user-data reset.                                                         *)
(***************************************************************************)
Admin ==
  \/ \E u \in Users, k \in AllKeys : give_package_command(u, k)
  \/ \E u \in Users, k \in AllKeys : admin_give_specific_package_callback(u, k)
  \/ \E u \in Users : admin_confirm_reset_user_data_callback(u)

NextAdmin ==
  \/ \E u \in Users, r \in Referrers : start_command(u, r)
  \/ \E u \in Users, k \in AllKeys : StarsActivate(u, k)
  \/ \E u \in Users : StarsFinish(u)
  \/ \E u \in Users : StarsReplyFails(u)
  \/ Spin
  \/ \E u \in Users : reset_command(u)
  \/ Admin

SpecAdmin == Init /\ [][NextAdmin]_vars

(***************************************************************************)
(* Invariants of the account fields.                                        *)
(***************************************************************************)
\* C22: the level is derived: in every reachable state the level of every
\* account equals calculate_level of its spin_points, after payments on
\* either rail and after the referral bonuses of the payer and the referrer.
C22_LevelDerived ==
  \A u \in DOMAIN user_data :
    user_data[u].level = calculate_level(user_data[u].spin_points)

\* C23: the spin_points of an account never decrease, whatever operation
\* acts on the account: a spin, the reset of the package on exhaustion or on
\* an NFT, the /reset command, the admin reset of user data.
C23_PointsNeverDecrease ==
  [][\A u \in DOMAIN user_data :
       u \in DOMAIN user_data' =>
         user_data'[u].spin_points >= user_data[u].spin_points]_vars

\* C24: the nfts list is append-only: a step leaves it as it was, or it is an
\* NFT-earned spin and appends exactly one NFT to it.
C24_NftsAppendOnly ==
  [][\A u \in DOMAIN user_data :
       u \in DOMAIN user_data' =>
         \/ user_data'[u].nfts = user_data[u].nfts
         \/ /\ Len(user_data'[u].nfts) = Len(user_data[u].nfts) + 1
            /\ SubSeq(user_data'[u].nfts, 1, Len(user_data[u].nfts)) =
                 user_data[u].nfts
            /\ \E d \in DiceValues :
                 /\ handle_slot_machine(u, d)
                 /\ calculate_spin_result(d, user_data[u]).nft_earned]_vars

(***************************************************************************)
(* Properties of the pending intents and of the match.                      *)
(***************************************************************************)
\* C25: the durable pending-payment table and the pending map in memory hold
\* the same intents after every create and every remove, so the table loaded
\* at process start is the set of intents the loop was using.
C25_PendingInSync ==
  db_pending = SeqToSet(pending_ton_payments)

\* C26: a confirmed TON match is never applied to an account whose package is
\* active.  Whatever ran while the loop was suspended at its awaits (a Stars
\* payment, spins), the step of the loop that handles a transaction leaves
\* package, spins_available, hits and total_spins of every account with an
\* active package as they were.
C26_TonKeepsActivePackage ==
  [][\A c \in ConfirmResults, f \in Failures :
       ProcessTx(c, f) =>
         \A u \in DOMAIN user_data :
            ActivePackage(user_data[u]) =>
              /\ user_data'[u].package = user_data[u].package
              /\ user_data'[u].spins_available = user_data[u].spins_available
              /\ user_data'[u].hits = user_data[u].hits
              /\ user_data'[u].total_spins = user_data[u].total_spins]_vars

\* C27: whenever handle_package presents a payment link, the amount and the
\* payment id of the link are the expected_amount and the payment_id of the
\* user's stored intent, also when the user selects another package while an
\* earlier intent is pending.
C27_LinkMatchesIntent ==
  \A u \in Users, k \in AllKeys, id \in PaymentIds :
     handle_package_reply(user_data, pending_ton_payments, u, k)
         \in {"payment_link_existing_intent", "payment_link_new_intent"} =>
       LET intent == handle_package_intent(pending_ton_payments, u, k, id)
           link == handle_package_link(pending_ton_payments, u, k, id)
       IN /\ link.amount = intent.expected_amount
          /\ link.text = intent.payment_id

\* C28: an intent removed while the loop is suspended in a confirmation check
\* is not applied on resume.  The completion of a Stars payment and /reset
\* take the user's intent out of the map, and the step of the loop that
\* follows the confirmation check reads the map as it is then: a user without
\* an intent gets no package from the transaction, whatever its text.
C28_RemovedIntentNotApplied ==
  [][/\ \A u \in Users :
          (StarsFinish(u) \/ reset_command(u)) => u \notin PendingUsers'
     /\ \A c \in ConfirmResults, f \in Failures :
          ProcessTx(c, f) =>
            \A u \in Users \ PendingUsers :
               IF u \in DOMAIN user_data
               THEN /\ u \in DOMAIN user_data'
                    /\ user_data'[u].package = user_data[u].package
                    /\ user_data'[u].payment_method = user_data[u].payment_method
                    /\ user_data'[u].spins_available = user_data[u].spins_available
                    /\ user_data'[u].hits = user_data[u].hits
                    /\ user_data'[u].total_spins = user_data[u].total_spins
               ELSE u \notin DOMAIN user_data']_vars

\* the loop is suspended in the confirmation check of a transaction that was
\* relevant to an intent when it was listed; no transaction has been applied
\* and the intent has left the map
C28_Witness ==
  /\ pc = "confirm"
  /\ relevant_transactions # <<>>
  /\ TxOf(Head(relevant_transactions)).ok
  /\ MatchIndex(Head(relevant_transactions), pending_ton_payments) = 0
  /\ PendingUsers = {}
  /\ processed_transactions \cap Hashes = {}

\* C29: a candidate transaction whose confirmation check timed out, reported
\* an error or reported not-confirmed is never applied in that cycle, the
\* client's exception fallback (is_confirmed true together with an error
\* field) included: the step changes no account, no intent and no ledger.
C29_UnconfirmedNeverApplied ==
  [][\A c \in ConfirmResults \ {"confirmed"}, f \in Failures :
       ProcessTx(c, f) =>
         /\ user_data' = user_data
         /\ pending_ton_payments' = pending_ton_payments
         /\ processed_transactions' = processed_transactions
         /\ db_users' = db_users]_vars

\* a transaction that matches a pending intent was skipped by its
\* confirmation check: the intent is still pending, nothing was recorded
C29_Witness ==
  \E h \in deferred :
     /\ MatchIndex(h, pending_ton_payments) # 0
     /\ h \notin processed_transactions
     /\ pc = "sleep"

\* C30: under fair scheduling of the loop no intent stays pending forever:
\* every pending intent is eventually removed from the map, applied by a
\* matching confirmed transaction, expired, or superseded by a package the
\* user activated another way.
C30_IntentEventuallyRemoved ==
  \A u \in Users : (u \in PendingUsers) ~> (u \notin PendingUsers)

\* the sweep has just removed the intent of a user without a package, more
\* than an hour after it was created
C30_Witness ==
  /\ pc = "check"
  /\ 1 \in users_to_remove
  /\ 1 \notin PendingUsers
  /\ ~ActivePackage(user_data[1])
  /\ now > TON_PAYMENT_EXPIRY

(***************************************************************************)
(* Specification of the circuit breaker around the indexer requests.       *)
(***************************************************************************)
\* CircuitBreaker.call lines 63-65: the caller asks _should_attempt_reset;
\* a refused call raises without invoking the wrapped function, an admitted
\* one awaits the wrapped coroutine
call_begin(c) ==
  /\ calls[c].pc = "idle"
  /\ LET r == should_attempt_reset(breaker, now) IN
       /\ breaker' = r.breaker
       /\ calls' = [calls EXCEPT ![c] =
                      IF r.attempt
                      THEN [pc |-> "in_flight", result |-> "none"]
                      ELSE [pc |-> "idle", result |-> "rejected"]]
  /\ UNCHANGED <<botVars, now, cache, timestamps, cache_reply, cache_history>>

\* CircuitBreaker.call lines 67-74: the wrapped function returns
call_returns(c) ==
  /\ calls[c].pc = "in_flight"
  /\ breaker' = on_success(breaker)
  /\ calls' = [calls EXCEPT ![c] = [pc |-> "idle", result |-> "returned"]]
  /\ UNCHANGED <<botVars, now, cache, timestamps, cache_reply, cache_history>>

\* CircuitBreaker.call lines 76-81: the wrapped function raises
call_raises(c) ==
  /\ calls[c].pc = "in_flight"
  /\ breaker.failure_count < MaxFailures
  /\ breaker' = on_failure(breaker, now)
  /\ calls' = [calls EXCEPT ![c] = [pc |-> "idle", result |-> "raised"]]
  /\ UNCHANGED <<botVars, now, cache, timestamps, cache_reply, cache_history>>

\* time.time() advances: by a second, or by a second less than the cooldown
BreakerElapse(d) ==
  /\ now + d <= MaxBreakerTime
  /\ now' = now + d
  /\ UNCHANGED <<botVars, utilVars>>

NextBreaker ==
  \/ \E c \in Callers : call_begin(c)
  \/ \E c \in Callers : call_returns(c)
  \/ \E c \in Callers : call_raises(c)
  \/ \E d \in {1, recovery_timeout - 1} : BreakerElapse(d)

SpecBreaker == Init /\ [][NextBreaker]_vars

(***************************************************************************)
(* Specification of the TTL cache of the indexer responses.                *)
(***************************************************************************)
\* TTLCache.set lines 63-80; the value records when and with which ttl
\* argument it was cached
cache_set(key, ttl) ==
  /\ cache_history.ops < MaxOps
  /\ LET c1 == Pop(cache, {key})
         t1 == PopTime(timestamps, {key})
         ex == expired_keys(t1, now)
         c2 == Pop(c1, ex)
         t2 == PopTime(t1, ex)
         lru == IF Len(c2) >= max_size THEN evict_lru(c2) ELSE {}
         c3 == Pop(c2, lru)
         t3 == PopTime(t2, lru)
         effective == IF ttl = NoTtl THEN default_ttl ELSE ttl
     IN /\ cache' = Append(c3, [key |-> key,
                                value |-> [set_at |-> now, ttl |-> ttl]])
        /\ timestamps' = [k \in DOMAIN t3 \cup {key} |->
                            IF k = key THEN now + effective ELSE t3[k]]
        /\ cache_history' = [ops |-> cache_history.ops + 1,
                             used |-> [cache_history.used EXCEPT
                                         ![key] = cache_history.ops + 1],
                             evicted |-> lru]
  /\ cache_reply' = [op |-> "set", key |-> key, result |-> <<>>,
                     existed |-> FALSE]
  /\ UNCHANGED <<botVars, now, breaker, calls>>

\* TTLCache.get lines 49-61
cache_get(key) ==
  /\ cache_history.ops < MaxOps
  /\ IF key \in KeysOf(cache) /\ ~is_expired(timestamps, key, now)
     THEN /\ cache' = Append(Pop(cache, {key}),
                             [key |-> key, value |-> ValueOf(cache, key)])
          /\ UNCHANGED timestamps
          /\ cache_reply' = [op |-> "get", key |-> key,
                             result |-> <<ValueOf(cache, key)>>,
                             existed |-> FALSE]
          /\ cache_history' = [ops |-> cache_history.ops + 1,
                               used |-> [cache_history.used EXCEPT
                                           ![key] = cache_history.ops + 1],
                               evicted |-> {}]
     ELSE /\ cache' = Pop(cache, {key})
          /\ timestamps' = PopTime(timestamps, {key})
          /\ cache_reply' = [op |-> "get", key |-> key, result |-> <<>>,
                             existed |-> FALSE]
          /\ cache_history' = [cache_history EXCEPT !.ops = @ + 1,
                                                    !.evicted = {}]
  /\ UNCHANGED <<botVars, now, breaker, calls>>

\* TTLCache.delete lines 82-88
cache_delete(key) ==
  /\ cache_history.ops < MaxOps
  /\ cache' = Pop(cache, {key})
  /\ timestamps' = PopTime(timestamps, {key})
  /\ cache_reply' = [op |-> "delete", key |-> key, result |-> <<>>,
                     existed |-> key \in KeysOf(cache)]
  /\ cache_history' = [cache_history EXCEPT !.ops = @ + 1, !.evicted = {}]
  /\ UNCHANGED <<botVars, now, breaker, calls>>

\* time.time() advances, to the last moment of a ttl or just past it
CacheElapse(d) ==
  /\ now + d <= MaxCacheTime
  /\ now' = now + d
  /\ UNCHANGED <<botVars, utilVars>>

NextCache ==
  \/ \E key \in Keys, ttl \in TtlArgs : cache_set(key, ttl)
  \/ \E key \in Keys : cache_get(key)
  \/ \E key \in Keys : cache_delete(key)
  \/ \E d \in {10, 11} : CacheElapse(d)

SpecCache == Init /\ [][NextCache]_vars

(***************************************************************************)
(* Properties of the sweep and of the spin handler.                         *)
(***************************************************************************)
\* C31: the sweep removes a pending intent only if it is older than the
\* expiry or its user holds an active package.  No account has payment_method
\* 'stars' with package none, so the sweep leaves the fresh intent of a user
\* without a package in place.
C31_SweepKeepsFreshIntent ==
  /\ [](\A u \in DOMAIN user_data :
          user_data[u].payment_method = "stars" => ActivePackage(user_data[u]))
  /\ [][(Sweep \/ \E k \in 1..NumUsers : SweepFails(k)) =>
          \A i \in 1..Len(pending_ton_payments) :
             LET u == pending_ton_payments[i].user_id IN
             u \notin PendingUsers' =>
               \/ Expired(now - pending_ton_payments[i].timestamp)
               \/ u \in DOMAIN user_data /\ ActivePackage(user_data[u])]_vars

\* a user whose Stars package is gone has selected a package again, and the
\* sweep has just left that intent in the map
C31_Witness ==
  /\ pc = "check"
  /\ 1 \in PendingUsers
  /\ 1 \in DOMAIN user_data
  /\ ~ActivePackage(user_data[1])
  /\ \E t \in processed_transactions : t[1] = "stars" /\ t[2] = 1

\* C32: a cycle of the loop that finds no pending intent after the sweep
\* makes no request to the chain indexer: it requests no wallet balance
\* (last_wallet_check keeps its value) and goes back to sleep without
\* fetching a listing
C32_NoCallWithoutIntent ==
  [][(BeginCheck /\ pending_ton_payments = <<>>) =>
        /\ last_wallet_check' = last_wallet_check
        /\ pc' = "sleep"]_vars

\* C33: every spin event on an account that has spins left completes and
\* consumes a spin, whatever package value the account holds, the values
\* written by the administrator's /give_package included: after the handler
\* the account has fewer spins than before
C33_SpinConsumed ==
  [][\A u \in Users, dice_value \in DiceValues :
        handle_slot_machine(u, dice_value) =>
          user_data'[u].spins_available < user_data[u].spins_available]_vars

hits_required(package) ==
  IF package \in DOMAIN required_hits THEN required_hits[package]
  ELSE PACKAGES[package].hits_required

\* C35: while a package is active the hit counter stays below the hits the
\* package requires, 0 <= hits < required hits, and it is 0 when there is
\* no package
C35_HitsBelowRequired ==
  \A u \in DOMAIN user_data :
     IF user_data[u].package = None
     THEN user_data[u].hits = 0
     ELSE /\ 0 <= user_data[u].hits
          /\ user_data[u].hits < hits_required(user_data[u].package)

\* C36: a spin event for an account whose spins_available is 0 is answered
\* with the out-of-spins rejection, and the spin handler changes an account
\* only when it has spins left: without spins no field changes, whatever the
\* dice value, 64 included
C36_NoSpinsNoChange ==
  /\ [](\A u \in DOMAIN user_data :
          user_data[u].spins_available = 0 =>
            handle_slot_machine_reply(user_data, u) = "out_of_spins")
  /\ [][\A u \in Users, dice_value \in DiceValues :
          handle_slot_machine(u, dice_value) =>
            user_data[u].spins_available > 0]_vars

C36_Witness ==
  /\ spin_events < MaxSpinEvents
  /\ WINNING_DICE \in DiceValues
  /\ \E u \in DOMAIN user_data :
        /\ user_data[u].spins_available = 0
        /\ user_data[u].spin_points > 0
        /\ handle_slot_machine_reply(user_data, u) = "out_of_spins"

\* C37: the referrals counter of every user R equals the number of accounts
\* whose referred_by is R; confirming a payment of a referred user leaves
\* the counter unchanged
C37_ReferralsCountReferred ==
  \A r \in DOMAIN user_data :
     user_data[r].referrals =
       Cardinality({u \in DOMAIN user_data : user_data[u].referred_by = r})

(***************************************************************************)
(* Properties of the circuit breaker.                                      *)
(***************************************************************************)
\* C38: the protocol of the circuit breaker.  The breaker is closed exactly
\* while fewer than failure_threshold failures followed the latest success,
\* so the failure that reaches the threshold opens it; a call that arrives
\* while it is open and less than recovery_timeout after the last failure is
\* rejected without running the wrapped function and leaves the breaker as
\* it is; the first call after the cooldown is admitted and makes the
\* breaker half-open; a call that returns while the breaker is half-open
\* closes it with failure_count 0, and one that raises re-opens it
C38_BreakerProtocol ==
  /\ [](breaker.state = "closed" <=> breaker.failure_count < failure_threshold)
  /\ [][\A c \in Callers :
          /\ (call_raises(c) /\ breaker'.failure_count >= failure_threshold)
               => breaker'.state = "open"
          /\ (call_begin(c) /\ breaker.state = "open"
                /\ now - breaker.last_failure_time < recovery_timeout)
               => /\ calls'[c] = [pc |-> "idle", result |-> "rejected"]
                  /\ breaker' = breaker
          /\ (call_begin(c) /\ breaker.state = "open"
                /\ now - breaker.last_failure_time >= recovery_timeout)
               => /\ calls'[c].pc = "in_flight"
                  /\ breaker'.state = "half_open"
          /\ (call_returns(c) /\ breaker.state = "half_open")
               => /\ breaker'.state = "closed"
                  /\ breaker'.failure_count = 0
          /\ (call_raises(c) /\ breaker.state = "half_open")
               => breaker'.state = "open"]_vars

C38_Witness ==
  /\ breaker.state = "half_open"
  /\ \E c \in Callers : calls[c].pc = "in_flight"
  /\ \E c \in Callers : calls[c].result = "rejected"

\* C39: while the breaker is half-open at most one probe is in flight: a
\* caller that arrives while the breaker is half-open and another call is
\* still in flight is rejected
C39_SingleProbe ==
  [][\A c \in Callers :
        (/\ call_begin(c)
         /\ breaker.state = "half_open"
         /\ \E o \in Callers \ {c} : calls[o].pc = "in_flight")
          => calls'[c] = [pc |-> "idle", result |-> "rejected"]]_vars

(***************************************************************************)
(* Properties of the TTL cache.                                            *)
(***************************************************************************)
\* C40: after any sequence of set, get and delete the cache holds at most
\* max_size entries and cache and timestamps have the same keys; get never
\* returns a value whose ttl has elapsed; and a set of a new key at capacity
\* with no expired entry evicts exactly the entry whose last get or set is
\* the oldest
C40_CacheCapacityAndEviction ==
  /\ [](/\ Len(cache) <= max_size
        /\ KeysOf(cache) = DOMAIN timestamps
        /\ Cardinality(KeysOf(cache)) = Len(cache))
  /\ [][\A key \in Keys :
          (cache_get(key) /\ cache_reply'.result # <<>>) =>
             LET v == cache_reply'.result[1] IN
             now <= v.set_at + (IF v.ttl = NoTtl THEN default_ttl ELSE v.ttl)]_vars
  /\ [][\A key \in Keys, ttl \in TtlArgs :
          (/\ cache_set(key, ttl)
           /\ key \notin KeysOf(cache)
           /\ Len(cache) = max_size
           /\ expired_keys(timestamps, now) = {}) =>
             LET lru == CHOOSE j \in KeysOf(cache) :
                          \A i \in KeysOf(cache) :
                             cache_history.used[j] <= cache_history.used[i]
             IN KeysOf(cache') = (KeysOf(cache) \ {lru}) \cup {key}]_vars

C40_Witness ==
  /\ cache_reply.op = "set"
  /\ cache_history.evicted # {}
  /\ Len(cache) = max_size
  /\ cache[1].key = 1
  /\ cache_history.used[1] > cache_history.used[2]

====
